---- MODULE Spec2Model ----
(***************************************************************************)
(* Run lifecycle of langgraph_api/api/runs.py: the create-and-join         *)
(* handlers stream_run, stream_run_stateless, wait_run and                 *)
(* wait_run_stateless, the consume task and the body generator of wait     *)
(* mode, and the collaborators they call (event channel, run registry,     *)
(* execution engine, thread storage).                                      *)
(*                                                                         *)
(* One request is modelled from its first line to the end of its response  *)
(* body.  Every await of the handler, of consume() and of body() is a      *)
(* separate action, so that the engine, the client and the other API       *)
(* calls (cancel_run, delete_run) interleave with them as they do under    *)
(* asyncio.                                                                *)
(***************************************************************************)
EXTENDS Naturals, Sequences, FiniteSets

(* ------------------------------ bounds --------------------------------- *)

\* Most events the engine publishes for the run.
MaxEvents == 2

\* Most idle markers one body emits (each one is one expiry of the timeout).
MaxIdle == 2

\* Most payloads of one batch request.
MaxBatch == 3

\* Most times one client drops its event stream and rejoins it.
MaxRejoins == 2

\* Most delete_run requests for the run.
MaxDeletes == 3

\* Most create-and-join requests served at the same time.
MaxRequests == 2

\* Most that callers add to one usage counter, in all.
MaxUsage == 2

\* Most iterations of the metadata loop.
MaxIntervals == 3

(* ------------------------------ values --------------------------------- *)

\* The four handlers that subscribe, create a run and join it.
Kinds == {"stream_run", "stream_run_stateless", "wait_run", "wait_run_stateless"}

IsStateless(k) == k \in {"stream_run_stateless", "wait_run_stateless"}

IsWait(k) == k \in {"wait_run", "wait_run_stateless"}

\* Run statuses; "none" is a run id no run has been created for yet.
NonTerminal == {"pending", "running"}

Terminal == {"success", "error", "timeout", "interrupted"}

\* An event of the stream: its mode, its chunk (the payload bytes) and
\* whether the bytes contain b"__interrupt__".
Ev(m, c, i) == [mode |-> m, chunk |-> c, intr |-> i]

Events ==
    { Ev("values", "p1", FALSE), Ev("values", "p2", FALSE),
      Ev("updates", "p1", FALSE), Ev("updates", "p2", TRUE),
      Ev("error", "p1", FALSE), Ev("error", "p2", FALSE),
      Ev("custom", "p1", FALSE) }

\* Byte strings the wait-mode body can hold or emit.
None == <<"None">>

Raw(c) == <<"chunk", c>>

EmptyObject == <<"{}">>

IdleMarker == <<"\\n">>

ThreadValues == <<"thread.values">>

\* body.get(key) of a string-valued key the body does not carry.
Absent == "<absent>"

VARIABLES
    kind,          \* the handler serving the request
    on_disconnect, \* payload.get("on_disconnect", "continue")
    hpc,           \* position of the handler in HandlerSteps(kind)
    hstate,        \* "running", "returned" (response handed over) or "raised"
    subHeld,       \* the handler is inside `async with ... as sub`
    chanExists,    \* the run's event channel exists
    log,           \* the channel's append-only log
    listeners,     \* the channel's listener count
    published,     \* every event the engine emitted for the run, in order
    runStatus,     \* status of the run, "none" before it is created
    runDeleted,    \* the run was deleted
    cancelPending, \* the cancellation marker of the run: "none" or the action
    discCancel,    \* the join issued a cancellation on disconnect
    threadExists,  \* the thread can be read from storage
    cpc,           \* position of the consume() task
    vchunk,        \* consume's vchunk
    cursor,        \* number of events the join has delivered
    cancelReq,     \* stream.cancel() was called on a task not yet done
    last_chunk,    \* the ValueEvent: None until set
    bpc,           \* position of the response body
    out,           \* chunks the body has yielded, in order
    connected,     \* the client is still connected
    crun,          \* a cancel_run request on the run: inputs, position, answer
    cruns,         \* a cancel_runs request: body, position, answer
    batch,         \* a create_stateless_run_batch request and its coroutines
    sjoin,         \* a join_run_stream request on the run: position, frames
    chan,          \* the channel's end: terminal event appended, torn down
    drun,          \* delete_run requests on the run: position, answers
    meta,          \* the usage counters and the metadata loop
    ids,           \* concurrent create-and-join requests and the ids they use
    a2a            \* an A2A JSON-RPC request and the tasks/get that follows it

vars == << kind, on_disconnect, hpc, hstate, subHeld, chanExists, log, listeners,
           published, runStatus, runDeleted, cancelPending, discCancel,
           threadExists, cpc, vchunk, cursor, cancelReq, last_chunk, bpc, out,
           connected, crun, cruns, batch, sjoin, chan, drun, meta, ids, a2a >>

\* The requests that are not part of the create-and-join request.
\* The channel's end, the delete requests and the usage counters.
moreVars == << chan, drun, meta, ids, a2a >>

\* The ids of concurrent requests and the A2A request.
lateVars == << ids, a2a >>

restVars == << crun, cruns, batch, sjoin, moreVars >>

handlerVars == << hpc, hstate, subHeld >>

chanVars == << chanExists, log, listeners >>

runVars == << runStatus, runDeleted, cancelPending, discCancel >>

consumeVars == << cpc, vchunk, cancelReq, last_chunk >>

bodyVars == << bpc, out, connected >>

inputVars == << kind, on_disconnect >>

(* ------------------------------ handler -------------------------------- *)

\* A handler that creates the run before it subscribes to its channel.
HandlerStepsCreateFirst(k) == << "create", "subscribe", "respond" >>

\* The awaits of a handler, in program order: the subscription is entered
\* first, create_valid_run runs inside it, and the response is returned from
\* inside the `async with`, which exits it.
HandlerSteps(k) == << "subscribe", "create", "respond" >>

Step == IF hstate = "running" /\ hpc <= Len(HandlerSteps(kind))
        THEN HandlerSteps(kind)[hpc] ELSE "end"

\* cancel_on_disconnect=on_disconnect == "cancel"
CancelOnDisconnect == on_disconnect = "cancel"

\* No cancel_run request has been received.
CancelRunIdle ==
    [pc |-> "idle", wait_str |-> "false", action_str |-> "interrupt",
     valid |-> TRUE, at |-> 1, issued |-> "none", seen |-> "none",
     joined |-> FALSE, resp |-> 0]

\* No cancel_runs request has been received.
CancelRunsIdle ==
    [pc |-> "idle", status |-> Absent, thread_id |-> Absent, run_ids |-> None,
     action_str |-> Absent, issued |-> "none", called |-> FALSE, resp |-> 0]

\* No batch request has been received.
BatchIdle ==
    [pc |-> "idle", n |-> 0, slot |-> << >>, count |-> 0, order |-> << >>,
     runs |-> << >>]

\* No join_run_stream request has been received.
StreamJoinIdle ==
    [pc |-> "idle", cursor |-> 0, out |-> << >>, last_event_id |-> << >>,
     before |-> 0, rejoins |-> 0]

\* A channel no terminal event was appended to and that was not torn down.
ChannelFresh == [closed |-> FALSE, torn |-> FALSE]

\* No delete_run request has been received.
DeleteIdle == [pc |-> "idle", valid |-> TRUE, answers |-> << >>]

\* The metadata module as imported: both counters 0, the loop not started.
MetaIdle ==
    [pc |-> "idle", license |-> "", api_key |-> FALSE, endpoint |-> FALSE,
     RUN_COUNTER |-> 0, NODE_COUNTER |-> 0, FROM_TIMESTAMP |-> 0, now |-> 0,
     runs |-> 0, nodes |-> 0, from_timestamp |-> 0, to_timestamp |-> 0,
     attempted |-> {}, failed |-> {}, delivered |-> << >>,
     added |-> [runs |-> 0, nodes |-> 0],
     sent |-> [runs |-> 0, nodes |-> 0], dropped |-> [runs |-> 0, nodes |-> 0]]

\* No id: nothing subscribed to, created or joined yet.
NoId == [id |-> 0, form |-> "none"]

NoRun == [run_id |-> NoId, thread_id |-> NoId]

\* No create-and-join request has been received; no uuid was generated.
IdsIdle ==
    [next |-> 1,
     req |-> [r \in 1..MaxRequests |->
                [pc |-> "idle", kind |-> "stream_run", run_id |-> NoId,
                 thread_id |-> NoId, sub |-> NoRun, run |-> NoRun,
                 joined |-> NoRun]]]

\* No A2A request has been received.
A2AIdle ==
    [pc |-> "idle", id |-> 0, method |-> Absent, params |-> "dict",
     message |-> "ok", contextId |-> Absent, task_id |-> Absent,
     thread_id |-> Absent, created |-> "none",
     run |-> [run_id |-> Absent, thread_id |-> Absent], lg_status |-> Absent,
     joins |-> << >>, follows |-> FALSE,
     outcome |-> [kind |-> "none", id |-> 0, task |-> Absent,
                  contextId |-> Absent, state |-> Absent]]

Init ==
    /\ kind \in Kinds
    /\ on_disconnect \in {"continue", "cancel"}
    /\ hpc = 1
    /\ hstate = "running"
    /\ subHeld = FALSE
    /\ chanExists = FALSE
    /\ log = << >>
    /\ listeners = 0
    /\ published = << >>
    /\ runStatus = "none"
    /\ runDeleted = FALSE
    /\ cancelPending = "none"
    /\ discCancel = FALSE
    /\ threadExists \in (IF IsStateless(kind) THEN {FALSE} ELSE BOOLEAN)
    /\ cpc = "notstarted"
    /\ vchunk = None
    /\ cursor = 0
    /\ cancelReq = FALSE
    /\ last_chunk = None
    /\ bpc = "notstarted"
    /\ out = << >>
    /\ connected = TRUE
    /\ crun = CancelRunIdle
    /\ cruns = CancelRunsIdle
    /\ batch = BatchIdle
    /\ sjoin = StreamJoinIdle
    /\ chan = ChannelFresh
    /\ drun = DeleteIdle
    /\ meta = MetaIdle
    /\ ids = IdsIdle
    /\ a2a = A2AIdle

\* async with await Runs.Stream.subscribe(run_id, thread_id) as sub
Subscribe ==
    /\ Step = "subscribe"
    /\ chanExists' = TRUE
    /\ log' = IF chanExists THEN log ELSE << >>
    /\ listeners' = listeners + 1
    /\ subHeld' = TRUE
    /\ hpc' = hpc + 1
    /\ UNCHANGED << hstate, published, runVars, threadExists, consumeVars,
                    cursor, bodyVars, inputVars, restVars >>

\* Leaving the `async with` block, normally or by an exception, releases the
\* subscription: the listener count drops, the channel and its log stay.
Release(held, n) == IF held /\ n > 0 THEN n - 1 ELSE n

\* create_valid_run accepts the request: a stateless handler forces
\* if_not_exists = "create" on a fresh thread id, a stateful one needs its
\* thread.
CanCreate == IsStateless(kind) \/ threadExists

\* run = await create_valid_run(conn, thread_id, payload, ..., run_id=run_id)
CreateRun ==
    /\ Step = "create"
    /\ CanCreate
    /\ runStatus' = "pending"
    /\ threadExists' = TRUE
    /\ hpc' = hpc + 1
    /\ UNCHANGED << hstate, subHeld, chanVars, published, runDeleted,
                    cancelPending, discCancel, consumeVars, cursor, bodyVars,
                    inputVars, restVars >>

\* create_valid_run raises (thread not found): the exception leaves the
\* `async with` block and the handler.
CreateRejected ==
    /\ Step = "create"
    /\ ~CanCreate
    /\ hstate' = "raised"
    /\ listeners' = Release(subHeld, listeners)
    /\ subHeld' = FALSE
    /\ UNCHANGED << hpc, chanExists, log, published, runVars, threadExists,
                    consumeVars, cursor, bodyVars, inputVars, restVars >>

\* return EventSourceResponse(...) / return StreamingResponse(body(), ...)
Respond ==
    /\ Step = "respond"
    /\ hstate' = "returned"
    /\ listeners' = Release(subHeld, listeners)
    /\ subHeld' = FALSE
    /\ UNCHANGED << hpc, chanExists, log, published, runVars, threadExists,
                    consumeVars, cursor, bodyVars, inputVars, restVars >>

(* ------------------------- run registry and engine --------------------- *)

RunLive == runStatus \in NonTerminal /\ ~runDeleted

\* A registry that marks every run it is asked to cancel, terminal or not.
RunsCancelAlways(action) == action

\* Runs.cancel on the run: a run that is not terminal gets the cancellation
\* marker, a terminal (or deleted) one is left as it is.
RunsCancel(action) == IF RunLive THEN action ELSE cancelPending

\* An engine that puts a run it has finished back into the queue.
FinishStatusesRequeue == Terminal \cup {"pending"}

\* The statuses the engine may end a running run with: interrupted once a
\* cancellation is pending, any terminal status otherwise.
FinishStatuses == IF cancelPending # "none" THEN {"interrupted"} ELSE Terminal

\* The engine picks the pending run up.
EngineStart ==
    /\ runStatus = "pending"
    /\ ~runDeleted
    /\ runStatus' = "running"
    /\ UNCHANGED << handlerVars, chanVars, published, runDeleted, cancelPending,
                    discCancel, threadExists, consumeVars, cursor, bodyVars,
                    inputVars, restVars >>

\* publish(mode, payload): appended to the channel's log when the channel
\* exists; an event emitted while no channel exists is lost to the join.
Publish(l, e) == IF chanExists THEN Append(l, e) ELSE l

EnginePublish ==
    /\ runStatus = "running"
    /\ ~runDeleted
    /\ Len(published) < MaxEvents
    /\ \E e \in Events :
         /\ published' = Append(published, e)
         /\ log' = Publish(log, e)
    /\ UNCHANGED << handlerVars, chanExists, listeners, runVars, threadExists,
                    consumeVars, cursor, bodyVars, inputVars, restVars >>

\* The run ends; a temporary thread (stateless run) goes with it.
EngineFinish ==
    /\ runStatus = "running"
    /\ ~runDeleted
    /\ \E s \in FinishStatuses : runStatus' = s
    /\ threadExists' = IF IsStateless(kind) THEN FALSE ELSE threadExists
    /\ UNCHANGED << handlerVars, chanVars, published, runDeleted, cancelPending,
                    discCancel, consumeVars, cursor, bodyVars, inputVars, restVars >>

\* cancel_run: Runs.cancel(conn, [run_id], action=action, thread_id=thread_id)
CancelRun ==
    /\ runStatus # "none"
    /\ \E action \in {"interrupt", "rollback"} :
         cancelPending' = RunsCancel(action)
    /\ UNCHANGED << handlerVars, chanVars, published, runStatus, runDeleted,
                    discCancel, threadExists, consumeVars, cursor, bodyVars,
                    inputVars, restVars >>

\* delete_run: Runs.delete(conn, run_id, thread_id=thread_id).  A temporary
\* thread goes with its run.
DeleteRun ==
    /\ runStatus # "none"
    /\ ~runDeleted
    /\ runDeleted' = TRUE
    /\ threadExists' = IF IsStateless(kind) THEN FALSE ELSE threadExists
    /\ UNCHANGED << handlerVars, chanVars, published, runStatus, cancelPending,
                    discCancel, consumeVars, cursor, bodyVars, inputVars, restVars >>

\* The thread of a stateful run is deleted by another request or its TTL.
DeleteThread ==
    /\ ~IsStateless(kind)
    /\ runStatus # "none"
    /\ threadExists
    /\ threadExists' = FALSE
    /\ UNCHANGED << handlerVars, chanVars, published, runVars, consumeVars,
                    cursor, bodyVars, inputVars, restVars >>

(* --------------------------------- join -------------------------------- *)

\* replay_from(cursor): the events of the log after the cursor.
Replay(c) == SubSeq(log, c + 1, Len(log))

\* The events the join has delivered so far.
Delivered == SubSeq(log, 1, cursor)

\* A channel that hands a reader its newest event, whatever the reader's
\* cursor.
ReplayNextNewest(c) == log[Len(log)]

\* The event a reader at cursor c is handed next: the one after its cursor.
ReplayNext(c) == log[c + 1]

\* The join has an event to deliver.
JoinHasNext == chanExists /\ cursor < Len(log)

\* A replay that ends as soon as its reader has caught up.
JoinExhaustedCaughtUp == cursor >= Len(log)

\* The join's exhaustion signal: caught up, and the run terminal (or gone).
JoinExhausted == cursor >= Len(log) /\ (runStatus \in Terminal \/ runDeleted)

\* What the join does to the run's cancellation marker when it detects that
\* its client is gone: with cancel_on_disconnect it issues
\* Runs.cancel(action="interrupt"), without it nothing.
JoinOnDisconnect == IF CancelOnDisconnect THEN RunsCancel("interrupt")
                    ELSE cancelPending

(* ------------------------- wait mode: consume() ------------------------ *)

\* orjson.dumps({"__error__": orjson.Fragment(chunk)})
ErrorWrap(c) == <<"__error__", c>>

\* A loop body that retains every updates chunk, interrupt or not.
ConsumeStepAnyUpdate(v, e) ==
    IF e.mode = "values" \/ e.mode = "updates" THEN Raw(e.chunk)
    ELSE IF e.mode = "error" THEN ErrorWrap(e.chunk)
    ELSE v

\* One turn of consume's `async for mode, chunk, _ in Runs.Stream.join(...)`.
ConsumeStep(v, e) ==
    IF e.mode = "values" \/ (e.mode = "updates" /\ e.intr) THEN Raw(e.chunk)
    ELSE IF e.mode = "error" THEN ErrorWrap(e.chunk)
    ELSE v

\* consume() after the loop, with vchunk still None: wait_run reads the
\* thread, wait_run_stateless does not.
ReadsThread(k) == k = "wait_run"

\* A fallback that answers the empty object without looking at the thread.
ThreadSnapshotNeverRead(exists) == EmptyObject

\* thread = await anext(thread_iter); last_chunk.set(thread["values"]), or
\* last_chunk.set(b"{}") on StopAsyncIteration.
ThreadSnapshot(exists) == IF exists THEN ThreadValues ELSE EmptyObject

ConsumeActive == cpc \in {"joining", "fallback"}

ConsumeOver == cpc \in {"done", "failed", "failedTimeout", "cancelled"}

\* The join yields the next event to consume's loop body.
ConsumeNext ==
    /\ cpc = "joining"
    /\ ~cancelReq
    /\ JoinHasNext
    /\ vchunk' = ConsumeStep(vchunk, ReplayNext(cursor))
    /\ cursor' = cursor + 1
    /\ UNCHANGED << handlerVars, chanVars, published, runVars, threadExists, cpc,
                    cancelReq, last_chunk, bodyVars, inputVars, restVars >>

\* The join is exhausted and the loop ends: `if vchunk is not None:
\* last_chunk.set(vchunk)`, else the fallback.
ConsumeJoinEnd ==
    /\ cpc = "joining"
    /\ ~cancelReq
    /\ JoinExhausted
    /\ IF vchunk # None
       THEN last_chunk' = vchunk /\ cpc' = "done"
       ELSE IF ReadsThread(kind)
       THEN last_chunk' = last_chunk /\ cpc' = "fallback"
       ELSE last_chunk' = EmptyObject /\ cpc' = "done"
    /\ UNCHANGED << handlerVars, chanVars, published, runVars, threadExists,
                    vchunk, cursor, cancelReq, bodyVars, inputVars, restVars >>

\* wait_run: async with connect(): thread_iter = await Threads.get(...)
ConsumeFallback ==
    /\ cpc = "fallback"
    /\ ~cancelReq
    /\ last_chunk' = ThreadSnapshot(threadExists)
    /\ cpc' = "done"
    /\ UNCHANGED << handlerVars, chanVars, published, runVars, threadExists,
                    vchunk, cursor, cancelReq, bodyVars, inputVars, restVars >>

\* The join or the storage call raises: consume ends with an exception and
\* last_chunk is never set.  The exception is a TimeoutError or another one.
ConsumeFail ==
    /\ ConsumeActive
    /\ ~cancelReq
    /\ cpc' \in {"failed", "failedTimeout"}
    /\ UNCHANGED << handlerVars, chanVars, published, runVars, threadExists,
                    vchunk, cursor, cancelReq, last_chunk, bodyVars, inputVars, restVars >>

\* The CancelledError of stream.cancel() reaches the task at its await: in
\* the join it is the join's disconnect detection.
ConsumeCancelled ==
    /\ ConsumeActive
    /\ cancelReq
    /\ cpc' = "cancelled"
    /\ cancelReq' = FALSE
    /\ cancelPending' = IF cpc = "joining" THEN JoinOnDisconnect ELSE cancelPending
    /\ discCancel' = (discCancel \/ (cpc = "joining" /\ CancelOnDisconnect))
    /\ UNCHANGED << handlerVars, chanVars, published, runStatus, runDeleted,
                    threadExists, vchunk, cursor, last_chunk, bodyVars, inputVars, restVars >>

(* --------------------------- wait mode: body() ------------------------- *)

IdleCount == Cardinality({ i \in 1..Len(out) : out[i] = IdleMarker })

\* A body without the `break`: after the value the loop goes on.
AfterValueYieldNoBreak == "top"

\* `yield await asyncio.wait_for(last_chunk.wait(), timeout=5)` is followed
\* by `break`: the generator ends.
AfterValueYield == "finished"

\* A body whose timeout ends the generator after the idle marker.
AfterIdleYieldGiveUp == "finished"

\* `except TimeoutError: yield b"\n"` is followed by the next turn of
\* `while True`.
AfterIdleYield == "top"

\* stream = asyncio.create_task(consume())
BodyStart ==
    /\ IsWait(kind)
    /\ hstate = "returned"
    /\ bpc = "notstarted"
    /\ connected
    /\ cpc' = "joining"
    /\ bpc' = "top"
    /\ UNCHANGED << handlerVars, chanVars, published, runVars, threadExists,
                    vchunk, cursor, cancelReq, last_chunk, out, connected,
                    inputVars, restVars >>

\* Top of the loop: `if stream.done(): stream.result()` re-raises consume's
\* exception inside the try block, where a TimeoutError is taken for an
\* expired wait; otherwise the body waits for last_chunk.
BodyTop ==
    /\ bpc = "top"
    /\ IF cpc = "failed"
       THEN bpc' = "raised" /\ out' = out
       ELSE IF cpc = "failedTimeout"
       THEN /\ IdleCount < MaxIdle
            /\ out' = Append(out, IdleMarker)
            /\ bpc' = "yieldIdle"
       ELSE bpc' = "waiting" /\ out' = out
    /\ UNCHANGED << handlerVars, chanVars, published, runVars, threadExists,
                    consumeVars, cursor, connected, inputVars, restVars >>

\* last_chunk.wait() returns the value that was set: it is yielded.
BodyGotValue ==
    /\ bpc = "waiting"
    /\ last_chunk # None
    /\ out' = Append(out, last_chunk)
    /\ bpc' = "yieldValue"
    /\ UNCHANGED << handlerVars, chanVars, published, runVars, threadExists,
                    consumeVars, cursor, connected, inputVars, restVars >>

\* The 5 seconds pass with last_chunk not set: except TimeoutError: yield b"\n"
BodyTimeout ==
    /\ bpc = "waiting"
    /\ last_chunk = None
    /\ IdleCount < MaxIdle
    /\ out' = Append(out, IdleMarker)
    /\ bpc' = "yieldIdle"
    /\ UNCHANGED << handlerVars, chanVars, published, runVars, threadExists,
                    consumeVars, cursor, connected, inputVars, restVars >>

\* The response asks for the next chunk after an idle marker.
BodyResumeIdle ==
    /\ bpc = "yieldIdle"
    /\ connected
    /\ bpc' = AfterIdleYield
    /\ UNCHANGED << handlerVars, chanVars, published, runVars, threadExists,
                    consumeVars, cursor, out, connected, inputVars, restVars >>

\* The response asks for the next chunk after the value.
BodyResumeValue ==
    /\ bpc = "yieldValue"
    /\ connected
    /\ bpc' = AfterValueYield
    /\ UNCHANGED << handlerVars, chanVars, published, runVars, threadExists,
                    consumeVars, cursor, out, connected, inputVars, restVars >>

\* The client goes away while the body is suspended in wait_for: the
\* CancelledError is raised inside the try block, and
\* `except asyncio.CancelledError` calls stream.cancel().
DisconnectAwait ==
    /\ bpc = "waiting"
    /\ connected
    /\ connected' = FALSE
    /\ cancelReq' = ConsumeActive
    /\ bpc' = "cancelling"
    /\ UNCHANGED << handlerVars, chanVars, published, runVars, threadExists, cpc,
                    vchunk, cursor, last_chunk, out, inputVars, restVars >>

\* `await stream` returns (or raises) once the task is over; then `raise`.
BodyAwaitStream ==
    /\ bpc = "cancelling"
    /\ ConsumeOver
    /\ bpc' = "cancelled"
    /\ UNCHANGED << handlerVars, chanVars, published, runVars, threadExists,
                    consumeVars, cursor, out, connected, inputVars, restVars >>

\* The client goes away while the body is suspended at a yield: the response
\* stops iterating and the generator is closed at that yield.  Neither yield
\* is covered by `except asyncio.CancelledError`, and what closes a generator
\* is GeneratorExit: the generator ends without touching the task.
DisconnectYield ==
    /\ bpc \in {"yieldIdle", "yieldValue"}
    /\ connected
    /\ connected' = FALSE
    /\ bpc' = "closed"
    /\ UNCHANGED << handlerVars, chanVars, published, runVars, threadExists,
                    consumeVars, cursor, out, inputVars, restVars >>

(* ----------------------- streaming mode: the join ---------------------- *)

\* One framed event of the event stream.
Frame(e) == <<"event", e.mode, e.chunk>>

\* EventSourceResponse starts iterating Runs.Stream.join(...).
StreamStart ==
    /\ ~IsWait(kind)
    /\ hstate = "returned"
    /\ bpc = "notstarted"
    /\ connected
    /\ bpc' = "relaying"
    /\ UNCHANGED << handlerVars, chanVars, published, runVars, threadExists,
                    consumeVars, cursor, out, connected, inputVars, restVars >>

StreamRelay ==
    /\ bpc = "relaying"
    /\ connected
    /\ JoinHasNext
    /\ out' = Append(out, Frame(ReplayNext(cursor)))
    /\ cursor' = cursor + 1
    /\ UNCHANGED << handlerVars, chanVars, published, runVars, threadExists,
                    consumeVars, bpc, connected, inputVars, restVars >>

StreamEnd ==
    /\ bpc = "relaying"
    /\ connected
    /\ JoinExhausted
    /\ bpc' = "finished"
    /\ UNCHANGED << handlerVars, chanVars, published, runVars, threadExists,
                    consumeVars, cursor, out, connected, inputVars, restVars >>

\* The client goes away mid-stream: the join detects it.
StreamDisconnect ==
    /\ bpc = "relaying"
    /\ connected
    /\ connected' = FALSE
    /\ bpc' = "cancelled"
    /\ cancelPending' = JoinOnDisconnect
    /\ discCancel' = (discCancel \/ CancelOnDisconnect)
    /\ UNCHANGED << handlerVars, chanVars, published, runStatus, runDeleted,
                    threadExists, consumeVars, cursor, out, inputVars, restVars >>

(* ---------------------------- specification ---------------------------- *)

Next ==
    \/ Subscribe
    \/ CreateRun
    \/ CreateRejected
    \/ Respond
    \/ EngineStart
    \/ EnginePublish
    \/ EngineFinish
    \/ CancelRun
    \/ DeleteRun
    \/ DeleteThread
    \/ ConsumeNext
    \/ ConsumeJoinEnd
    \/ ConsumeFallback
    \/ ConsumeFail
    \/ ConsumeCancelled
    \/ BodyStart
    \/ BodyTop
    \/ BodyGotValue
    \/ BodyTimeout
    \/ BodyResumeIdle
    \/ BodyResumeValue
    \/ DisconnectAwait
    \/ BodyAwaitStream
    \/ DisconnectYield
    \/ StreamStart
    \/ StreamRelay
    \/ StreamEnd
    \/ StreamDisconnect

Spec == Init /\ [][Next]_vars

(* ------------------------------ cancel_run ----------------------------- *)

\* Every variable of the create-and-join request but the cancellation marker.
allButMarker == << handlerVars, chanVars, published, runStatus, runDeleted,
                   discCancel, threadExists, consumeVars, cursor, bodyVars,
                   inputVars >>

\* Values of the query parameter `wait` a client sends.
WaitStrs == {"false", "TRUE", "1", "no"}

\* Values of the query parameter `action` a client sends, or none.
ActionStrs == {Absent, "interrupt", "rollback", "kill"}

\* request.query_params.get("action", "interrupt")
ActionParam(q) == IF q = Absent THEN "interrupt" ELSE q

\* str.lower() on the strings the requests carry.
Lower(s) ==
    CASE s = "TRUE" -> "true"
      [] s = "ALL" -> "all"
      [] s = "Running" -> "running"
      [] OTHER -> s

\* wait = wait_str.lower() in {"true", "yes", "1"}
Wait(wait_str) == Lower(wait_str) \in {"true", "yes", "1"}

\* An action that is passed on as the client wrote it.
ActionUnchecked(action_str) == action_str

\* action_str if action_str in {"interrupt", "rollback"} else "interrupt"
Action(action_str) ==
    IF action_str \in {"interrupt", "rollback"} THEN action_str ELSE "interrupt"

\* A cancel_run that answers without joining whatever `wait` says.
CancelRunStepsNoJoin(wait) == << "cancel", "respond" >>

\* The awaits of cancel_run after its validation, in program order.
CancelRunSteps(wait) ==
    IF wait THEN << "cancel", "join", "respond" >> ELSE << "cancel", "respond" >>

\* A cancel_run that answers 204 without wait and 202 with it.
CancelRunStatusCodeSwapped(wait) == IF wait THEN 202 ELSE 204

\* Response(status_code=204 if wait else 202)
CancelRunStatusCode(wait) == IF wait THEN 204 ELSE 202

\* Runs.join(run_id, thread_id=thread_id) returns once the run is terminal
\* (or gone).
RunsJoinResolves == runStatus \in Terminal \/ runDeleted

CancelRunStep ==
    IF crun.pc = "steps" /\ crun.at <= Len(CancelRunSteps(Wait(crun.wait_str)))
    THEN CancelRunSteps(Wait(crun.wait_str))[crun.at] ELSE "end"

\* validate_uuid(thread_id, ...); validate_uuid(run_id, ...): 422 on a
\* path parameter that is no UUID.
CancelRunValidate ==
    /\ crun.pc = "validate"
    /\ crun' = IF crun.valid
               THEN [crun EXCEPT !.pc = "steps", !.at = 1]
               ELSE [crun EXCEPT !.pc = "raised", !.resp = 422]
    /\ UNCHANGED << allButMarker, cancelPending, cruns, batch, sjoin, moreVars >>

\* async with connect() as conn: await Runs.cancel(conn, [run_id], ...)
CancelRunCancel ==
    /\ CancelRunStep = "cancel"
    /\ cancelPending' = RunsCancel(Action(ActionParam(crun.action_str)))
    /\ crun' = [crun EXCEPT !.at = @ + 1,
                            !.issued = Action(ActionParam(crun.action_str)),
                            !.seen = runStatus]
    /\ UNCHANGED << allButMarker, cruns, batch, sjoin, moreVars >>

\* if wait: await Runs.join(run_id, thread_id=thread_id)
CancelRunJoin ==
    /\ CancelRunStep = "join"
    /\ RunsJoinResolves
    /\ crun' = [crun EXCEPT !.at = @ + 1, !.joined = TRUE]
    /\ UNCHANGED << allButMarker, cancelPending, cruns, batch, sjoin, moreVars >>

\* return Response(status_code=204 if wait else 202)
CancelRunRespond ==
    /\ CancelRunStep = "respond"
    /\ crun' = [crun EXCEPT !.pc = "done",
                            !.resp = CancelRunStatusCode(Wait(crun.wait_str))]
    /\ UNCHANGED << allButMarker, cancelPending, cruns, batch, sjoin, moreVars >>

(* ------------------------------ cancel_runs ---------------------------- *)

\* Values of the body's "status", "thread_id" and "run_ids".
StatusInputs == {Absent, "", "pending", "ALL", "done"}

ThreadIdInputs == {Absent, "uuid", "not-a-uuid"}

RunIdsInputs == {None, << >>, <<"uuid">>, <<"not-a-uuid">>}

\* Python truthiness of a string (or None) and of a list (or None).
Truthy(x) == x \notin {Absent, ""}

TruthyList(l) == l \notin {None, << >>}

\* status not in ("pending", "running", "all") is refused.
StatusValid(status) == status \in {"pending", "running", "all"}

\* A check that looks at "thread_id" only.
IdsGivenThreadOnly(body) == Truthy(body.thread_id)

\* if body.get("thread_id") or body.get("run_ids")
IdsGiven(body) == Truthy(body.thread_id) \/ TruthyList(body.run_ids)

\* validate_uuid(x, detail): passes (0) on a UUID, HTTPException(422) on a
\* string that is none; on None it raises, as a 422 or as an error the
\* handler does not catch (500).
ValidateUuid(x) ==
    IF x = Absent THEN {422, 500}
    ELSE IF x = "uuid" THEN {0} ELSE {422}

\* for rid in run_ids: validate_uuid(rid, ...).  Iterating None is a
\* TypeError (500).
ValidateRunIds(l) ==
    IF l = None THEN {500}
    ELSE IF \E i \in 1..Len(l) : l[i] # "uuid" THEN {422} ELSE {0}

\* The else branch: thread_id first, then the run ids.
ValidateIds(body) ==
    IF ValidateUuid(body.thread_id) # {0}
    THEN (ValidateUuid(body.thread_id) \ {0})
             \cup (IF 0 \in ValidateUuid(body.thread_id)
                   THEN ValidateRunIds(body.run_ids) ELSE {})
    ELSE ValidateRunIds(body.run_ids)

\* The answers cancel_runs can give before it reaches Runs.cancel; 0 is
\* none: the request goes on to Runs.cancel.
CancelRunsChecks(body) ==
    IF Truthy(body.status)
    THEN IF ~StatusValid(Lower(body.status)) THEN {422}
         ELSE IF IdsGiven(body) THEN {422}
         ELSE {0}
    ELSE ValidateIds(body)

\* The arguments Runs.cancel is called with.
CancelRunsArgs(body) ==
    IF Truthy(body.status)
    THEN [status |-> Lower(body.status), thread_id |-> Absent, run_ids |-> None]
    ELSE [status |-> body.status, thread_id |-> body.thread_id,
          run_ids |-> body.run_ids]

\* Runs.cancel selects the run: by the status filter, or by its ids.
RunsCancelSelects(args) ==
    IF Truthy(args.status)
    THEN args.status = "all" \/ args.status = runStatus
    ELSE args.thread_id = "uuid" /\ args.run_ids # None
         /\ \E i \in 1..Len(args.run_ids) : args.run_ids[i] = "uuid"

\* body = await request.json(RunsCancel) and the checks before connect().
CancelRunsValidate ==
    /\ cruns.pc = "validate"
    /\ \E r \in CancelRunsChecks(cruns) :
         cruns' = IF r = 0 THEN [cruns EXCEPT !.pc = "cancel"]
                  ELSE [cruns EXCEPT !.pc = "done", !.resp = r]
    /\ UNCHANGED << allButMarker, cancelPending, crun, batch, sjoin, moreVars >>

\* await Runs.cancel(conn, run_ids, action=action, thread_id=thread_id,
\* status=status); return Response(status_code=204)
CancelRunsCancel ==
    /\ cruns.pc = "cancel"
    /\ \E action_str \in ActionStrs :
         /\ cancelPending' = IF RunsCancelSelects(CancelRunsArgs(cruns))
                             THEN RunsCancel(Action(ActionParam(action_str)))
                             ELSE cancelPending
         /\ cruns' = [cruns EXCEPT !.pc = "done", !.called = TRUE,
                                   !.action_str = action_str,
                                   !.issued = Action(ActionParam(action_str)),
                                   !.resp = 204]
    /\ UNCHANGED << allButMarker, crun, batch, sjoin, moreVars >>

\* The run exists, in any status, when the cancel requests arrive.
InitCancel ==
    /\ kind = "stream_run"
    /\ on_disconnect = "continue"
    /\ hpc = 3
    /\ hstate = "returned"
    /\ subHeld = FALSE
    /\ chanExists = TRUE
    /\ log = << >>
    /\ listeners = 0
    /\ published = << >>
    /\ runStatus \in NonTerminal \cup Terminal
    /\ runDeleted = FALSE
    /\ cancelPending = "none"
    /\ discCancel = FALSE
    /\ threadExists = TRUE
    /\ cpc = "notstarted"
    /\ vchunk = None
    /\ cursor = 0
    /\ cancelReq = FALSE
    /\ last_chunk = None
    /\ bpc = "notstarted"
    /\ out = << >>
    /\ connected = TRUE
    /\ \E w \in WaitStrs, a \in ActionStrs, v \in BOOLEAN :
         crun = [CancelRunIdle EXCEPT !.pc = "validate", !.wait_str = w,
                                      !.action_str = a, !.valid = v]
    /\ \E st \in StatusInputs, t \in ThreadIdInputs, r \in RunIdsInputs :
         cruns = [CancelRunsIdle EXCEPT !.pc = "validate", !.status = st,
                                        !.thread_id = t, !.run_ids = r]
    /\ batch = BatchIdle
    /\ sjoin = StreamJoinIdle
    /\ chan = ChannelFresh
    /\ drun = DeleteIdle
    /\ meta = MetaIdle
    /\ ids = IdsIdle
    /\ a2a = A2AIdle

NextCancel ==
    \/ EngineStart
    \/ EngineFinish
    \/ CancelRunValidate
    \/ CancelRunCancel
    \/ CancelRunJoin
    \/ CancelRunRespond
    \/ CancelRunsValidate
    \/ CancelRunsCancel

SpecCancel == InitCancel /\ [][NextCancel]_vars

(* ---------------------- create_stateless_run_batch --------------------- *)

\* Every variable of the create-and-join request.
lifecycleVars == << allButMarker, cancelPending >>

\* A barrier that is one party short of the batch.
BarrierPartiesOneShort(n) == IF n > 1 THEN n - 1 ELSE n

\* barrier = asyncio.Barrier(len(batch_payload))
BarrierParties(n) == n

\* The run create_valid_run returns for the i-th payload.
RunOf(i) == [payload |-> i]

\* A gather that hands exceptions back as results.
GatherRaisesNever(slot) == FALSE

\* asyncio.gather(*coros): the first exception of a coroutine is raised to
\* the caller.
GatherRaises(slot) ==
    \E i \in 1..Len(slot) : slot[i] \in {"failedEarly", "failedLate"}

\* A gather that ends once every coroutine is over.
GatherOver(slot) ==
    \A i \in 1..Len(slot) : slot[i] \in {"done", "failedEarly", "failedLate"}

\* Results listed in the order the coroutines completed.
GatherResultsAsCompleted(n, order) == [i \in 1..n |-> RunOf(order[i])]

\* asyncio.gather(*coros): the results in the order of the awaitables.
GatherResults(n, order) == [i \in 1..n |-> RunOf(i)]

\* The slots the barrier lets go when slot i arrives as the last party.
BarrierRelease(slot, i) ==
    [j \in 1..Len(slot) |->
        IF j = i \/ slot[j] = "waiting" THEN "passed" ELSE slot[j]]

\* batch_payload = await request.json(RunBatchCreate); the barrier is built
\* (asyncio.Barrier(0) raises ValueError) and gather starts the coroutines.
BatchStart ==
    /\ batch.pc = "received"
    /\ batch' = IF BarrierParties(batch.n) < 1
                THEN [batch EXCEPT !.pc = "raised"]
                ELSE [batch EXCEPT !.pc = "gathering",
                                   !.slot = [i \in 1..batch.n |-> "new"]]
    /\ UNCHANGED << lifecycleVars, crun, cruns, sjoin, moreVars >>

\* create_valid_run of slot i sends its query down the pipeline.
BatchDispatch ==
    /\ batch.pc \in {"gathering", "raised"}
    /\ \E i \in 1..Len(batch.slot) :
         /\ batch.slot[i] = "new"
         /\ batch' = [batch EXCEPT !.slot[i] = "dispatched"]
    /\ UNCHANGED << lifecycleVars, crun, cruns, sjoin, moreVars >>

\* create_valid_run of slot i fails before it sent anything.
BatchFailEarly ==
    /\ batch.pc \in {"gathering", "raised"}
    /\ \E i \in 1..Len(batch.slot) :
         /\ batch.slot[i] = "new"
         /\ batch' = [batch EXCEPT !.slot[i] = "failedEarly"]
    /\ UNCHANGED << lifecycleVars, crun, cruns, sjoin, moreVars >>

\* await barrier.wait() of slot i: the last party releases all of them.
BatchArrive ==
    /\ batch.pc \in {"gathering", "raised"}
    /\ \E i \in 1..Len(batch.slot) :
         /\ batch.slot[i] = "dispatched"
         /\ batch' = IF batch.count + 1 = BarrierParties(batch.n)
                     THEN [batch EXCEPT !.slot = BarrierRelease(batch.slot, i),
                                        !.count = 0]
                     ELSE [batch EXCEPT !.slot[i] = "waiting",
                                        !.count = @ + 1]
    /\ UNCHANGED << lifecycleVars, crun, cruns, sjoin, moreVars >>

\* create_valid_run of slot i fetches its result and returns the run, or
\* fails.
BatchFetch ==
    /\ batch.pc \in {"gathering", "raised"}
    /\ \E i \in 1..Len(batch.slot) :
         /\ batch.slot[i] = "passed"
         /\ \/ batch' = [batch EXCEPT !.slot[i] = "done",
                                      !.order = Append(@, i)]
            \/ batch' = [batch EXCEPT !.slot[i] = "failedLate"]
    /\ UNCHANGED << lifecycleVars, crun, cruns, sjoin, moreVars >>

\* runs = await asyncio.gather(*coros) raises.
BatchRaise ==
    /\ batch.pc = "gathering"
    /\ GatherRaises(batch.slot)
    /\ batch' = [batch EXCEPT !.pc = "raised"]
    /\ UNCHANGED << lifecycleVars, crun, cruns, sjoin, moreVars >>

\* runs = await asyncio.gather(*coros); return ApiResponse(runs)
BatchReturn ==
    /\ batch.pc = "gathering"
    /\ ~GatherRaises(batch.slot)
    /\ GatherOver(batch.slot)
    /\ batch' = [batch EXCEPT !.pc = "returned",
                              !.runs = GatherResults(batch.n, batch.order)]
    /\ UNCHANGED << lifecycleVars, crun, cruns, sjoin, moreVars >>

\* A batch request of 0..MaxBatch payloads has been received.
InitBatch ==
    /\ kind = "stream_run_stateless"
    /\ on_disconnect = "continue"
    /\ hpc = 1
    /\ hstate = "running"
    /\ subHeld = FALSE
    /\ chanExists = FALSE
    /\ log = << >>
    /\ listeners = 0
    /\ published = << >>
    /\ runStatus = "none"
    /\ runDeleted = FALSE
    /\ cancelPending = "none"
    /\ discCancel = FALSE
    /\ threadExists = FALSE
    /\ cpc = "notstarted"
    /\ vchunk = None
    /\ cursor = 0
    /\ cancelReq = FALSE
    /\ last_chunk = None
    /\ bpc = "notstarted"
    /\ out = << >>
    /\ connected = TRUE
    /\ crun = CancelRunIdle
    /\ cruns = CancelRunsIdle
    /\ \E n \in 0..MaxBatch : batch = [BatchIdle EXCEPT !.pc = "received", !.n = n]
    /\ sjoin = StreamJoinIdle
    /\ chan = ChannelFresh
    /\ drun = DeleteIdle
    /\ meta = MetaIdle
    /\ ids = IdsIdle
    /\ a2a = A2AIdle

NextBatch ==
    \/ BatchStart
    \/ BatchDispatch
    \/ BatchFailEarly
    \/ BatchArrive
    \/ BatchFetch
    \/ BatchRaise
    \/ BatchReturn

SpecBatch == InitBatch /\ [][NextBatch]_vars

(* ----------------------------- join_run_stream ------------------------- *)

\* One event as a reader of the channel receives it: its sequence number in
\* the channel, its mode and its payload.
SeqFrame(n, e) == [seq |-> n, mode |-> e.mode, chunk |-> e.chunk, intr |-> e.intr]

\* EventSourceResponse(Runs.Stream.join(run_id, thread_id=thread_id, ...)):
\* a second, independent join of the run, started at any time after the run
\* was created; it replays the channel from its start.
StreamJoinStart ==
    /\ sjoin.pc = "idle"
    /\ runStatus # "none"
    /\ chanExists
    /\ sjoin' = [sjoin EXCEPT !.pc = "relaying"]
    /\ UNCHANGED << lifecycleVars, crun, cruns, batch, moreVars >>

StreamJoinRelay ==
    /\ sjoin.pc = "relaying"
    /\ chanExists
    /\ sjoin.cursor < Len(log)
    /\ sjoin' = [sjoin EXCEPT
                    !.out = Append(@, SeqFrame(sjoin.cursor + 1,
                                               ReplayNext(sjoin.cursor))),
                    !.cursor = @ + 1]
    /\ UNCHANGED << lifecycleVars, crun, cruns, batch, moreVars >>

\* The join's exhaustion signal: caught up and the run terminal.
StreamJoinEnd ==
    /\ sjoin.pc = "relaying"
    /\ sjoin.cursor >= Len(log)
    /\ runStatus \in Terminal \/ runDeleted
    /\ sjoin' = [sjoin EXCEPT !.pc = "finished"]
    /\ UNCHANGED << lifecycleVars, crun, cruns, batch, moreVars >>

\* A wait-mode request whose client stays connected, and a join_run_stream
\* request for the run it creates.
InitJoins ==
    /\ kind \in {"wait_run", "wait_run_stateless"}
    /\ on_disconnect = "continue"
    /\ hpc = 1
    /\ hstate = "running"
    /\ subHeld = FALSE
    /\ chanExists = FALSE
    /\ log = << >>
    /\ listeners = 0
    /\ published = << >>
    /\ runStatus = "none"
    /\ runDeleted = FALSE
    /\ cancelPending = "none"
    /\ discCancel = FALSE
    /\ threadExists = ~IsStateless(kind)
    /\ cpc = "notstarted"
    /\ vchunk = None
    /\ cursor = 0
    /\ cancelReq = FALSE
    /\ last_chunk = None
    /\ bpc = "notstarted"
    /\ out = << >>
    /\ connected = TRUE
    /\ crun = CancelRunIdle
    /\ cruns = CancelRunsIdle
    /\ batch = BatchIdle
    /\ sjoin = StreamJoinIdle
    /\ chan = ChannelFresh
    /\ drun = DeleteIdle
    /\ meta = MetaIdle
    /\ ids = IdsIdle
    /\ a2a = A2AIdle

NextJoins ==
    \/ Subscribe
    \/ CreateRun
    \/ Respond
    \/ EngineStart
    \/ EnginePublish
    \/ EngineFinish
    \/ ConsumeNext
    \/ ConsumeJoinEnd
    \/ ConsumeFallback
    \/ BodyStart
    \/ BodyTop
    \/ BodyGotValue
    \/ BodyResumeValue
    \/ StreamJoinStart
    \/ StreamJoinRelay
    \/ StreamJoinEnd

SpecJoins == InitJoins /\ [][NextJoins]_vars

(* ------------------------- the channel's end --------------------------- *)

\* The events that end a channel: an error event, or the values event the
\* engine emits as its last.
IsTerminalEvent(e, final) == e.mode = "error" \/ (e.mode = "values" /\ final)

\* A channel that takes events after its terminal event.
ChannelOpenAlways(c) == TRUE

\* publish appends while no terminal event has been appended.
ChannelOpen(c) == ~c.closed

\* The execution-engine adapter publishes an event of the running run and
\* says whether it is its last.
AdapterPublish ==
    /\ runStatus = "running"
    /\ ~runDeleted
    /\ Len(published) < MaxEvents
    /\ chanExists
    /\ ChannelOpen(chan)
    /\ \E e \in Events, final \in BOOLEAN :
         /\ published' = Append(published, e)
         /\ log' = Publish(log, e)
         /\ chan' = [chan EXCEPT !.closed = IsTerminalEvent(e, final)]
    /\ UNCHANGED << handlerVars, chanExists, listeners, runVars, threadExists,
                    consumeVars, cursor, bodyVars, inputVars, crun, cruns,
                    batch, sjoin, drun, meta, lateVars >>

\* A channel that is torn down as soon as nobody listens.
TeardownEligibleUnheard == chanExists /\ listeners = 0

\* detach: with zero listeners and the run terminal the channel is eligible
\* for teardown.
TeardownEligible == chanExists /\ listeners = 0 /\ runStatus \in Terminal

ChannelTeardown ==
    /\ TeardownEligible
    /\ chanExists' = FALSE
    /\ log' = << >>
    /\ chan' = [chan EXCEPT !.torn = TRUE]
    /\ UNCHANGED << handlerVars, listeners, published, runVars, threadExists,
                    consumeVars, cursor, bodyVars, inputVars, crun, cruns,
                    batch, sjoin, drun, meta, lateVars >>

NextChannel ==
    \/ Subscribe
    \/ CreateRun
    \/ CreateRejected
    \/ Respond
    \/ EngineStart
    \/ AdapterPublish
    \/ EngineFinish
    \/ ChannelTeardown

SpecChannel == Init /\ [][NextChannel]_vars

(* ------------------------ rejoining with Last-Event-ID ----------------- *)

\* The Last-Event-ID header of a client that has received the frames q: the
\* sequence number of the last one, no header when it has received none.
LastEventIdOf(q) == IF q = << >> THEN << >> ELSE << q[Len(q)].seq >>

\* A join that replays the channel from its start whatever the header says.
ResumeCursorFromStart(h) == 0

\* last_event_id = request.headers.get("last-event-id") or None, handed to
\* Runs.Stream.join: the replay starts after that event, at the start of the
\* channel without it.
ResumeCursor(h) == IF h = << >> THEN 0 ELSE h[1]

\* The client of join_run_stream disconnects; cancel_on_disconnect is
\* "false" unless asked for.
StreamJoinDrop ==
    /\ sjoin.pc = "relaying"
    /\ sjoin.rejoins < MaxRejoins
    /\ sjoin' = [sjoin EXCEPT !.pc = "dropped"]
    /\ UNCHANGED << lifecycleVars, crun, cruns, batch, moreVars >>

\* The client calls join_run_stream again with the id of the last event it
\* has.
StreamJoinRejoin ==
    /\ sjoin.pc = "dropped"
    /\ chanExists
    /\ sjoin' = [sjoin EXCEPT
                    !.pc = "relaying",
                    !.last_event_id = LastEventIdOf(sjoin.out),
                    !.cursor = ResumeCursor(LastEventIdOf(sjoin.out)),
                    !.before = Len(sjoin.out),
                    !.rejoins = @ + 1]
    /\ UNCHANGED << lifecycleVars, crun, cruns, batch, moreVars >>

NextResume ==
    \/ NextJoins
    \/ StreamJoinDrop
    \/ StreamJoinRejoin

SpecResume == InitJoins /\ [][NextResume]_vars

\* Under asyncio a join that can take its next step takes it.
SpecJoinsFair ==
    /\ SpecJoins
    /\ WF_vars(StreamJoinRelay)
    /\ WF_vars(StreamJoinEnd)
    /\ WF_vars(ConsumeNext)
    /\ WF_vars(ConsumeJoinEnd)

(* ------------------------------- delete_run ---------------------------- *)

\* The run is not in the registry: never created, or deleted.
RunAbsent == runStatus = "none" \/ runDeleted

\* A registry whose delete of an absent run succeeds.
DeleteAnswerAlwaysOk(absent) == 204

\* rid = await Runs.delete(...); await fetchone(rid); Response(204): NotFound
\* (404) for an absent run.
DeleteAnswer(absent) == IF absent THEN 404 ELSE 204

\* validate_uuid(thread_id, ...); validate_uuid(run_id, ...)
DeleteValidate ==
    /\ drun.pc = "validate"
    /\ drun' = IF drun.valid
               THEN [drun EXCEPT !.pc = "delete"]
               ELSE [drun EXCEPT !.pc = "done", !.answers = Append(@, 422)]
    /\ UNCHANGED << lifecycleVars, crun, cruns, batch, sjoin, chan, meta, lateVars >>

\* async with connect() as conn: rid = await Runs.delete(conn, run_id,
\* thread_id=thread_id); await fetchone(rid); return Response(204).  A
\* temporary thread goes with its run.
DeleteRunAnswer ==
    /\ drun.pc = "delete"
    /\ drun' = [drun EXCEPT !.pc = "done",
                            !.answers = Append(@, DeleteAnswer(RunAbsent))]
    /\ runDeleted' = TRUE
    /\ threadExists' = IF ~RunAbsent /\ IsStateless(kind) THEN FALSE
                       ELSE threadExists
    /\ UNCHANGED << handlerVars, chanVars, published, runStatus, cancelPending,
                    discCancel, consumeVars, cursor, bodyVars, inputVars,
                    crun, cruns, batch, sjoin, chan, meta, lateVars >>

\* The client sends the delete again.
DeleteAgain ==
    /\ drun.pc = "done"
    /\ Len(drun.answers) < MaxDeletes
    /\ \E v \in BOOLEAN : drun' = [drun EXCEPT !.pc = "validate", !.valid = v]
    /\ UNCHANGED << lifecycleVars, crun, cruns, batch, sjoin, chan, meta, lateVars >>

\* The run exists, in any status, when the first delete_run arrives.
InitDelete ==
    /\ kind \in {"stream_run", "stream_run_stateless"}
    /\ on_disconnect = "continue"
    /\ hpc = 3
    /\ hstate = "returned"
    /\ subHeld = FALSE
    /\ chanExists = TRUE
    /\ log = << >>
    /\ listeners = 0
    /\ published = << >>
    /\ runStatus \in NonTerminal \cup Terminal
    /\ runDeleted = FALSE
    /\ cancelPending = "none"
    /\ discCancel = FALSE
    /\ threadExists = (~IsStateless(kind) \/ runStatus \in NonTerminal)
    /\ cpc = "notstarted"
    /\ vchunk = None
    /\ cursor = 0
    /\ cancelReq = FALSE
    /\ last_chunk = None
    /\ bpc = "notstarted"
    /\ out = << >>
    /\ connected = TRUE
    /\ crun = CancelRunIdle
    /\ cruns = CancelRunsIdle
    /\ batch = BatchIdle
    /\ sjoin = StreamJoinIdle
    /\ chan = ChannelFresh
    /\ \E v \in BOOLEAN : drun = [DeleteIdle EXCEPT !.pc = "validate", !.valid = v]
    /\ meta = MetaIdle
    /\ ids = IdsIdle
    /\ a2a = A2AIdle

NextDelete ==
    \/ EngineStart
    \/ EngineFinish
    \/ DeleteValidate
    \/ DeleteRunAnswer
    \/ DeleteAgain

SpecDelete == InitDelete /\ [][NextDelete]_vars

(* ------------------------- usage counters (metadata.py) ---------------- *)

\* Values of LANGGRAPH_CLOUD_LICENSE_KEY: unset, a key that starts with
\* "lcl_", a key that does not.
LicenseKeys == {"", "lcl_key", "other_key"}

\* LANGGRAPH_CLOUD_LICENSE_KEY.startswith("lcl_")
StartsWithLcl(license) == license = "lcl_key"

\* metadata_loop returns at once without any key, and with a license key
\* that is not an lcl_ key and no API key (air-gapped mode).
LoopRuns(license, api_key) ==
    /\ ~(license = "" /\ ~api_key)
    /\ ~(license # "" /\ ~StartsWithLcl(license) /\ ~api_key)

\* if LANGGRAPH_CLOUD_LICENSE_KEY and LANGGRAPH_CLOUD_LICENSE_KEY.startswith("lcl_")
UsesBeacon(m) == m.license # "" /\ StartsWithLcl(m.license)

\* if LANGSMITH_API_KEY and LANGCHAIN_METADATA_ENDPOINT
UsesLangchain(m) == m.api_key /\ m.endpoint

\* A counter that is set to the increment instead of raised by it.
IncrOverwrite(counter, incr) == incr

\* RUN_COUNTER += incr; NODE_COUNTER += incr
Incr(counter, incr) == counter + incr

\* A reset that leaves the counter as it is.
ResetKeepsCounter(counter) == counter

\* RUN_COUNTER = 0; NODE_COUNTER = 0
Reset(counter) == 0

\* The step of the loop after the snapshot, and after each submission.
AfterSnapshot(m) ==
    IF UsesBeacon(m) THEN "beacon"
    ELSE IF UsesLangchain(m) THEN "langchain" ELSE "settle"

AfterBeacon(m) == IF UsesLangchain(m) THEN "langchain" ELSE "settle"

\* A retry as soon as one submission failed.
AllFailedAny(m) == m.failed # {}

\* if submissions_attempted and len(submissions_failed) == len(submissions_attempted)
AllFailed(m) == m.attempted # {} /\ Cardinality(m.failed) = Cardinality(m.attempted)

\* Every variable but the usage counters.
allButMeta == << lifecycleVars, crun, cruns, batch, sjoin, chan, drun, lateVars >>

\* incr_runs(incr=...) called by a request handler.
IncrRuns ==
    /\ \E incr \in 1..MaxUsage :
         /\ meta.added.runs + incr <= MaxUsage
         /\ meta' = [meta EXCEPT !.RUN_COUNTER = Incr(@, incr),
                                 !.added.runs = @ + incr]
    /\ UNCHANGED allButMeta

\* incr_nodes(_, incr=...) called by the engine.
IncrNodes ==
    /\ \E incr \in 1..MaxUsage :
         /\ meta.added.nodes + incr <= MaxUsage
         /\ meta' = [meta EXCEPT !.NODE_COUNTER = Incr(@, incr),
                                 !.added.nodes = @ + incr]
    /\ UNCHANGED allButMeta

\* metadata_loop() up to `while True`.  The loop is started some time after
\* the module, and with it FROM_TIMESTAMP, was initialised.
MetaLoopStart ==
    /\ meta.pc = "idle"
    /\ meta' = [meta EXCEPT !.pc = IF LoopRuns(meta.license, meta.api_key)
                                   THEN "top" ELSE "returned",
                            !.now = @ + 1]
    /\ UNCHANGED allButMeta

\* The block without awaits at the top of the loop: the counters and
\* FROM_TIMESTAMP are read and reset, the payload is built.
MetaSnapshot ==
    /\ meta.pc = "top"
    /\ meta' = [meta EXCEPT !.from_timestamp = meta.FROM_TIMESTAMP,
                            !.to_timestamp = meta.now,
                            !.nodes = meta.NODE_COUNTER,
                            !.runs = meta.RUN_COUNTER,
                            !.RUN_COUNTER = Reset(@),
                            !.NODE_COUNTER = Reset(@),
                            !.FROM_TIMESTAMP = meta.now,
                            !.attempted = {},
                            !.failed = {},
                            !.pc = AfterSnapshot(meta)]
    /\ UNCHANGED allButMeta

\* The reporting window of base_payload; `delivered` lists the windows of
\* the payloads an endpoint accepted, in the order of their delivery.
Payload(m) == [from_timestamp |-> m.from_timestamp, to_timestamp |-> m.to_timestamp]

\* await http_request("POST", BEACON_ENDPOINT, ...) succeeds or raises.
MetaBeacon ==
    /\ meta.pc = "beacon"
    /\ \E ok \in BOOLEAN :
         meta' = [meta EXCEPT !.attempted = @ \cup {"beacon"},
                              !.failed = IF ok THEN @ ELSE @ \cup {"beacon"},
                              !.delivered = IF ok THEN Append(@, Payload(meta))
                                            ELSE @,
                              !.pc = AfterBeacon(meta)]
    /\ UNCHANGED allButMeta

\* await http_request("POST", LANGCHAIN_METADATA_ENDPOINT, ...) succeeds or
\* raises.
MetaLangchain ==
    /\ meta.pc = "langchain"
    /\ \E ok \in BOOLEAN :
         meta' = [meta EXCEPT !.attempted = @ \cup {"langchain"},
                              !.failed = IF ok THEN @ ELSE @ \cup {"langchain"},
                              !.delivered = IF ok THEN Append(@, Payload(meta))
                                            ELSE @,
                              !.pc = "settle"]
    /\ UNCHANGED allButMeta

\* A failed iteration that leaves FROM_TIMESTAMP at its to_timestamp.
RestoredFromKept(m) == m.FROM_TIMESTAMP

\* FROM_TIMESTAMP = from_timestamp
RestoredFrom(m) == m.from_timestamp

\* After the submissions: when all that were attempted failed the snapshot
\* is added back and FROM_TIMESTAMP restored.  `sent` and `dropped` keep
\* account of the snapshots that reached an endpoint and of those that were
\* sent nowhere.  The locals runs and nodes are not read again before the
\* next snapshot overwrites them; they are cleared here.
MetaSettle ==
    /\ meta.pc = "settle"
    /\ meta' =
         IF AllFailed(meta)
         THEN [meta EXCEPT !.RUN_COUNTER = Incr(@, meta.runs),
                           !.NODE_COUNTER = Incr(@, meta.nodes),
                           !.FROM_TIMESTAMP = RestoredFrom(meta),
                           !.runs = 0, !.nodes = 0,
                           !.pc = "sleep"]
         ELSE IF meta.attempted # {}
         THEN [meta EXCEPT !.sent.runs = @ + meta.runs,
                           !.sent.nodes = @ + meta.nodes,
                           !.runs = 0, !.nodes = 0,
                           !.pc = "sleep"]
         ELSE [meta EXCEPT !.dropped.runs = @ + meta.runs,
                           !.dropped.nodes = @ + meta.nodes,
                           !.runs = 0, !.nodes = 0,
                           !.pc = "sleep"]
    /\ UNCHANGED allButMeta

\* await asyncio.sleep(INTERVAL) returns.
MetaWake ==
    /\ meta.pc = "sleep"
    /\ meta.now < MaxIntervals
    /\ meta' = [meta EXCEPT !.pc = "top", !.now = @ + 1]
    /\ UNCHANGED allButMeta

\* The module has been imported under some configuration; no request is
\* being served.
InitMeta ==
    /\ kind = "stream_run"
    /\ on_disconnect = "continue"
    /\ hpc = 1
    /\ hstate = "running"
    /\ subHeld = FALSE
    /\ chanExists = FALSE
    /\ log = << >>
    /\ listeners = 0
    /\ published = << >>
    /\ runStatus = "none"
    /\ runDeleted = FALSE
    /\ cancelPending = "none"
    /\ discCancel = FALSE
    /\ threadExists = TRUE
    /\ cpc = "notstarted"
    /\ vchunk = None
    /\ cursor = 0
    /\ cancelReq = FALSE
    /\ last_chunk = None
    /\ bpc = "notstarted"
    /\ out = << >>
    /\ connected = TRUE
    /\ crun = CancelRunIdle
    /\ cruns = CancelRunsIdle
    /\ batch = BatchIdle
    /\ sjoin = StreamJoinIdle
    /\ chan = ChannelFresh
    /\ drun = DeleteIdle
    /\ ids = IdsIdle
    /\ a2a = A2AIdle
    /\ \E l \in LicenseKeys, k \in BOOLEAN, e \in BOOLEAN :
         meta = [MetaIdle EXCEPT !.license = l, !.api_key = k, !.endpoint = e]

NextMeta ==
    \/ IncrRuns
    \/ IncrNodes
    \/ MetaLoopStart
    \/ MetaSnapshot
    \/ MetaBeacon
    \/ MetaLangchain
    \/ MetaSettle
    \/ MetaWake

SpecMeta == InitMeta /\ [][NextMeta]_vars

(* --------------------- ids of concurrent requests ---------------------- *)

\* No create-and-join, cancel, batch, join or delete request is being served.
NoRequest ==
    /\ kind = "stream_run"
    /\ on_disconnect = "continue"
    /\ hpc = 1
    /\ hstate = "running"
    /\ subHeld = FALSE
    /\ chanExists = FALSE
    /\ log = << >>
    /\ listeners = 0
    /\ published = << >>
    /\ runStatus = "none"
    /\ runDeleted = FALSE
    /\ cancelPending = "none"
    /\ discCancel = FALSE
    /\ threadExists = TRUE
    /\ cpc = "notstarted"
    /\ vchunk = None
    /\ cursor = 0
    /\ cancelReq = FALSE
    /\ last_chunk = None
    /\ bpc = "notstarted"
    /\ out = << >>
    /\ connected = TRUE
    /\ crun = CancelRunIdle
    /\ cruns = CancelRunsIdle
    /\ batch = BatchIdle
    /\ sjoin = StreamJoinIdle
    /\ chan = ChannelFresh
    /\ drun = DeleteIdle

\* Thread ids clients put into the path.  Generated ids are numbered from 1
\* and stay far below these.
PathThreadIds == {101, 102}

\* request.path_params["thread_id"]: a string.
PathParam(n) == [id |-> n, form |-> "str"]

\* A generator that hands out the same id again.
Uuid7Same(n) == [id |-> 1, form |-> "UUID"]

\* uuid7(): an id no earlier call returned.
Uuid7(n) == [id |-> n, form |-> "UUID"]

\* uuid4(): likewise.
Uuid4(n) == [id |-> n, form |-> "UUID"]

\* str(thread_id)
Str(u) == [id |-> u.id, form |-> "str"]

\* create_valid_run(conn, thread_id, payload, headers, run_id=run_id): the
\* run it returns carries the run id and the thread id it was given.
CreateValidRun(thread_id, run_id) == [run_id |-> run_id, thread_id |-> thread_id]

\* The thread id a handler passes to create_valid_run.
CreateThreadArg(q) == IF IsStateless(q.kind) THEN Str(q.thread_id) ELSE q.thread_id

\* The thread id a handler passes to Runs.Stream.join: stream_run passes
\* its path parameter, the other three run["thread_id"].
JoinThreadArg(q) == IF q.kind = "stream_run" THEN q.thread_id ELSE q.run.thread_id

\* Every variable but the ids.
allButIds == << lifecycleVars, crun, cruns, batch, sjoin, chan, drun, meta, a2a >>

\* The handler up to its subscribe: thread_id from the path or uuid4(),
\* run_id = uuid7().
IdsReceive(r) ==
    /\ ids.req[r].pc = "idle"
    /\ \E k \in Kinds, t \in PathThreadIds :
         ids' = IF IsStateless(k)
                THEN [ids EXCEPT !.next = @ + 2,
                                 !.req[r].pc = "subscribe",
                                 !.req[r].kind = k,
                                 !.req[r].run_id = Uuid7(ids.next),
                                 !.req[r].thread_id = Uuid4(ids.next + 1)]
                ELSE [ids EXCEPT !.next = @ + 1,
                                 !.req[r].pc = "subscribe",
                                 !.req[r].kind = k,
                                 !.req[r].run_id = Uuid7(ids.next),
                                 !.req[r].thread_id = PathParam(t)]
    /\ UNCHANGED allButIds

\* async with await Runs.Stream.subscribe(run_id, thread_id) as sub
IdsSubscribe(r) ==
    /\ ids.req[r].pc = "subscribe"
    /\ ids' = [ids EXCEPT !.req[r].pc = "create",
                          !.req[r].sub = [run_id |-> ids.req[r].run_id,
                                          thread_id |-> ids.req[r].thread_id]]
    /\ UNCHANGED allButIds

\* run = await create_valid_run(...): returns the run or raises.
IdsCreate(r) ==
    /\ ids.req[r].pc = "create"
    /\ \E ok \in BOOLEAN :
         ids' = IF ok
                THEN [ids EXCEPT !.req[r].pc = "join",
                                 !.req[r].run =
                                     CreateValidRun(CreateThreadArg(ids.req[r]),
                                                    ids.req[r].run_id)]
                ELSE [ids EXCEPT !.req[r].pc = "raised"]
    /\ UNCHANGED allButIds

\* Runs.Stream.join(run["run_id"], thread_id=..., stream_channel=sub)
IdsJoin(r) ==
    /\ ids.req[r].pc = "join"
    /\ ids' = [ids EXCEPT !.req[r].pc = "joined",
                          !.req[r].joined = [run_id |-> ids.req[r].run.run_id,
                                             thread_id |-> JoinThreadArg(ids.req[r])]]
    /\ UNCHANGED allButIds

InitIds ==
    /\ NoRequest
    /\ meta = MetaIdle
    /\ ids = IdsIdle
    /\ a2a = A2AIdle

NextIds ==
    \E r \in 1..MaxRequests :
        \/ IdsReceive(r)
        \/ IdsSubscribe(r)
        \/ IdsCreate(r)
        \/ IdsJoin(r)

SpecIds == InitIds /\ [][NextIds]_vars

(* ------------------------------ A2A (a2a.py) --------------------------- *)

\* The JSON-RPC ids, methods and params of the requests.
RpcIds == {1, 2}

RpcMethods == {"message/send", "tasks/get", "tasks/cancel", "tasks/list"}

\* message.get("params", {}): an object, or something that is none (null, a
\* list).
ParamsInputs == {"dict", "null"}

\* params["message"]: usable, missing, without parts, or with parts the
\* assistant does not support.
MessageInputs == {"ok", "missing", "noparts", "unsupported"}

\* The contextId of a message, the id and contextId of a tasks/get.
ContextIdInputs == {Absent, "ctx", "new-thread", "generated-context"}

TaskIdInputs == {Absent, "run-1", "run-9"}

\* The "status" of the run client.runs.get returns, a missing and an unknown
\* one included.
LgStatusInputs == NonTerminal \cup Terminal \cup {Absent, "cancelled"}

\* A mapping that lets timeout fall through to the default.
A2AStateTimeoutDefault(lg_status) ==
    CASE lg_status = "pending" -> "submitted"
      [] lg_status = "running" -> "working"
      [] lg_status = "success" -> "completed"
      [] lg_status \in {"error", "interrupted"} -> "failed"
      [] OTHER -> "submitted"

\* handle_tasks_get: the if / elif chain from lg_status to a2a_state.
A2AState(lg_status) ==
    CASE lg_status = "pending" -> "submitted"
      [] lg_status = "running" -> "working"
      [] lg_status = "success" -> "completed"
      [] lg_status \in {"error", "timeout", "interrupted"} -> "failed"
      [] OTHER -> "submitted"

\* run_info.get("status", "unknown")
RunInfoStatus(status) == IF status = Absent THEN "unknown" ELSE status

\* thread_id = context_id if context_id else None
SendThreadId(contextId) == contextId

\* client.runs.create(thread_id=thread_id, ...): the run is created on the
\* given thread, or on a thread made for it when none is given.
RunsCreate(thread_id) ==
    [run_id |-> "run-1",
     thread_id |-> IF thread_id = Absent THEN "new-thread" ELSE thread_id]

\* context_id = thread_id or _generate_context_id()
ReturnedContextId(thread_id) ==
    IF thread_id = Absent THEN "generated-context" ELSE thread_id

\* client.runs.get(thread_id=context_id, run_id=task_id) finds the run.
RunsGetFinds(m) == m.task_id = m.run.run_id /\ m.contextId = m.run.thread_id

RpcError(m) == [m.outcome EXCEPT !.kind = "error", !.id = m.id]

\* An exception that leaves handle_jsonrpc_request: no JSON-RPC response.
RpcRaised(m) == [m.outcome EXCEPT !.kind = "raised"]

RpcResult(m, task, contextId, state) ==
    [kind |-> "result", id |-> m.id, task |-> task, contextId |-> contextId,
     state |-> state]

\* Every variable but the A2A request.
allButA2A == << lifecycleVars, crun, cruns, batch, sjoin, chan, drun, meta, ids >>

\* handle_jsonrpc_request -> handle_message_send up to client.runs.create:
\* the checks of params, message and parts, the assistant lookup.  Every
\* failure is returned as an error, an exception through the outer except.
A2AMessageSend ==
    /\ a2a.pc = "received"
    /\ a2a.method = "message/send"
    /\ a2a' = IF a2a.params # "dict" \/ a2a.message # "ok"
              THEN [a2a EXCEPT !.pc = "done", !.outcome = RpcError(a2a)]
              ELSE [a2a EXCEPT !.pc = "create",
                               !.thread_id = SendThreadId(a2a.contextId)]
    /\ UNCHANGED allButA2A

\* run = await client.runs.create(...): returns the run, or raises an error
\* that is mapped to a JSON-RPC error, or one that is re-raised into the
\* outer except.
A2ACreate ==
    /\ a2a.pc = "create"
    /\ \/ a2a' = [a2a EXCEPT !.pc = "join", !.created = "ok",
                             !.run = RunsCreate(a2a.thread_id),
                             !.lg_status = "pending"]
       \/ \E how \in {"mapped", "internal"} :
            a2a' = [a2a EXCEPT !.pc = "done", !.created = how,
                               !.outcome = RpcError(a2a)]
    /\ UNCHANGED allButA2A

\* result = await client.runs.join(thread_id=run["thread_id"],
\* run_id=run["run_id"]); the task response, or the outer except.
A2AJoin ==
    /\ a2a.pc = "join"
    /\ \E st \in Terminal, ok \in BOOLEAN :
         a2a' = [a2a EXCEPT
                   !.pc = "done",
                   !.lg_status = st,
                   !.joins = Append(@, [thread_id |-> a2a.run.thread_id,
                                        run_id |-> a2a.run.run_id]),
                   !.outcome =
                       IF ok
                       THEN RpcResult(a2a, a2a.run.run_id,
                                      ReturnedContextId(a2a.thread_id),
                                      IF st = "success" THEN "completed"
                                      ELSE "failed")
                       ELSE RpcError(a2a)]
    /\ UNCHANGED allButA2A

\* handle_jsonrpc_request -> handle_tasks_get.  With params that are no
\* object the first params.get raises inside the try, and the except clause
\* evaluates params.get('id') again: that exception leaves the handler.
A2ATasksGet ==
    /\ a2a.pc = "received"
    /\ a2a.method = "tasks/get"
    /\ \E assistant_ok \in BOOLEAN :
         a2a' = [a2a EXCEPT
                   !.pc = "done",
                   !.outcome =
                       IF a2a.params # "dict" THEN RpcRaised(a2a)
                       ELSE IF a2a.task_id = Absent \/ a2a.contextId = Absent
                       THEN RpcError(a2a)
                       ELSE IF ~RunsGetFinds(a2a) \/ ~assistant_ok
                       THEN RpcError(a2a)
                       ELSE RpcResult(a2a, a2a.task_id, a2a.contextId,
                                      A2AState(RunInfoStatus(a2a.lg_status)))]
    /\ UNCHANGED allButA2A

\* handle_jsonrpc_request -> handle_tasks_cancel, or no such method.
A2AOtherMethod ==
    /\ a2a.pc = "received"
    /\ a2a.method \notin {"message/send", "tasks/get"}
    /\ a2a' = [a2a EXCEPT !.pc = "done", !.outcome = RpcError(a2a)]
    /\ UNCHANGED allButA2A

\* The client looks the returned task up: tasks/get with the id and the
\* contextId of the task message/send returned.
A2ALookUpAgain ==
    /\ a2a.pc = "done"
    /\ a2a.method = "message/send"
    /\ a2a.outcome.kind = "result"
    /\ \E i \in RpcIds :
         a2a' = [a2a EXCEPT !.pc = "received", !.id = i,
                            !.method = "tasks/get",
                            !.task_id = a2a.outcome.task,
                            !.contextId = a2a.outcome.contextId,
                            !.follows = TRUE,
                            !.outcome = A2AIdle.outcome]
    /\ UNCHANGED allButA2A

\* A JSON-RPC request has been received: a message/send, or another request
\* while run-1 exists on thread ctx in some status.
InitA2A ==
    /\ NoRequest
    /\ meta = MetaIdle
    /\ ids = IdsIdle
    /\ \E i \in RpcIds, p \in ParamsInputs :
         \/ \E msg \in MessageInputs, ctx \in {Absent, "ctx"} :
              a2a = [A2AIdle EXCEPT !.pc = "received", !.id = i,
                                    !.method = "message/send", !.params = p,
                                    !.message = msg, !.contextId = ctx]
         \/ \E mth \in RpcMethods \ {"message/send"}, t \in TaskIdInputs,
               ctx \in ContextIdInputs, st \in LgStatusInputs :
              a2a = [A2AIdle EXCEPT !.pc = "received", !.id = i,
                                    !.method = mth, !.params = p,
                                    !.task_id = t, !.contextId = ctx,
                                    !.run = [run_id |-> "run-1", thread_id |-> "ctx"],
                                    !.lg_status = st]

NextA2A ==
    \/ A2AMessageSend
    \/ A2ACreate
    \/ A2AJoin
    \/ A2ATasksGet
    \/ A2AOtherMethod
    \/ A2ALookUpAgain

SpecA2A == InitA2A /\ [][NextA2A]_vars

(* ------------------------------- claims -------------------------------- *)

\* The join of the request has run to its exhaustion signal.
JoinCompleted ==
    \/ IsWait(kind) /\ cpc \in {"fallback", "done"}
    \/ ~IsWait(kind) /\ bpc = "finished"

\* The modes consume retains a chunk of.
Retained(e) == e.mode = "values" \/ (e.mode = "updates" /\ e.intr)

HasError(q) == \E i \in 1..Len(q) : q[i].mode = "error"

HasRetained(q) == \E i \in 1..Len(q) : Retained(q[i])

FirstError(q) ==
    q[CHOOSE i \in 1..Len(q) :
        /\ q[i].mode = "error"
        /\ \A j \in 1..(i - 1) : q[j].mode # "error"]

LastRetained(q) ==
    q[CHOOSE i \in 1..Len(q) :
        /\ Retained(q[i])
        /\ \A j \in (i + 1)..Len(q) : ~Retained(q[j])]

BodyEndedByDisconnect == ~connected /\ bpc \in {"cancelled", "closed"}

\* C1: in all four handlers the subscription to the run's channel is
\* established before create_valid_run is invoked: whenever the handler is
\* about to create the run it holds the subscription, and no run exists
\* without the channel existing.
C1_SubscribedBeforeCreate ==
    /\ Step = "create" => subHeld /\ chanExists /\ listeners > 0
    /\ runStatus # "none" => chanExists

C1_Witness == runStatus = "pending" /\ subHeld /\ chanExists /\ Step = "respond"

\* C2: after subscribe-then-create, a replay from cursor 0 yields exactly the
\* events the engine published, under every interleaving of the engine with
\* the handler; a join that ran to its end has delivered all of them.
C2_NoEventLost ==
    /\ (chanExists /\ runStatus # "none") => Replay(0) = published
    /\ JoinCompleted => Delivered = published

C2_Witness ==
    /\ JoinCompleted
    /\ Len(published) >= 2
    /\ Delivered = published
    /\ hstate = "returned"

\* C3: the status of the run only moves none -> pending -> running -> one of
\* the terminal statuses, under create, engine progress, cancel and delete;
\* a terminal status never changes again.
C3_StatusMonotonic ==
    [][ \/ runStatus' = runStatus
        \/ runStatus = "none" /\ runStatus' = "pending"
        \/ runStatus = "pending" /\ runStatus' = "running"
        \/ runStatus = "running" /\ runStatus' \in Terminal ]_vars

C3_Witness ==
    /\ runStatus = "interrupted"
    /\ cancelPending = "rollback"
    /\ runDeleted

\* C4: whenever the client is gone and the wait-mode body has ended because
\* of it, the consume task is over (cancelled and awaited).
C4_ConsumeAwaitedOnDisconnect ==
    (IsWait(kind) /\ BodyEndedByDisconnect) => ConsumeOver

\* C5: when the client has disconnected from the join of a run that is not
\* terminal, the join issued a cancellation (action interrupt) if cancel on
\* disconnect was requested, and issued none if it was not.
C5_DisconnectPolicy ==
    /\ ( /\ BodyEndedByDisconnect
         /\ CancelOnDisconnect
         /\ RunLive
         /\ IsWait(kind) => cpc \in {"joining", "cancelled"} )
       => discCancel /\ cancelPending # "none"
    /\ ~CancelOnDisconnect => ~discCancel

\* C6: in wait mode, when the delivered events hold an error event, the
\* joined value is the first error payload wrapped as {"__error__": ...},
\* whatever follows it.
C6_FirstErrorWins ==
    (IsWait(kind) /\ cpc = "done" /\ HasError(Delivered))
       => last_chunk = ErrorWrap(FirstError(Delivered).chunk)

\* C7: in wait mode, with no error event delivered, the retained value is the
\* chunk of the last values event or interrupt-carrying updates event; other
\* events never change it.
C7_LastRetainedWins ==
    (IsWait(kind) /\ ~HasError(Delivered)) =>
       /\ cpc = "joining" =>
            vchunk = IF HasRetained(Delivered)
                     THEN Raw(LastRetained(Delivered).chunk) ELSE None
       /\ (cpc = "done" /\ HasRetained(Delivered)) =>
            last_chunk = Raw(LastRetained(Delivered).chunk)

C7_Witness ==
    /\ cpc = "done"
    /\ Len(Delivered) = 2
    /\ Delivered[1].mode = "values"
    /\ Delivered[2].mode \in {"custom", "updates"}
    /\ ~Delivered[2].intr
    /\ last_chunk = Raw(Delivered[1].chunk)

C9_BodyShape ==
    IsWait(kind) =>
       /\ \A i \in 1..(Len(out) - 1) : out[i] = IdleMarker
       /\ (Len(out) > 0 /\ out[Len(out)] # IdleMarker) =>
            /\ out[Len(out)] = last_chunk
            /\ last_chunk # None
            /\ cpc = "done"
            /\ JoinExhausted
            /\ bpc \in {"yieldValue", "finished", "closed"}
       /\ bpc = "finished" => (Len(out) > 0 /\ out[Len(out)] # IdleMarker)

C9_Witness ==
    /\ IsWait(kind)
    /\ bpc = "finished"
    /\ Len(out) = 3
    /\ out[1] = IdleMarker
    /\ out[2] = IdleMarker
    /\ out[3] = last_chunk

\* C10: the expiry of the idle interval never ends a wait-mode join: a body
\* that has ended has emitted the value of its consume task, or re-raised
\* the task's exception, or lost its client; after idle markers the body is
\* still at the same task.
C10_TimeoutNeverEnds ==
    IsWait(kind) =>
       /\ bpc = "finished" => (last_chunk # None /\ cpc = "done")
       /\ bpc = "raised" => cpc = "failed"
       /\ bpc \in {"cancelling", "cancelled", "closed"} => ~connected
       /\ (bpc = "yieldIdle" /\ connected) => cpc # "notstarted"

C10_Witness ==
    /\ IsWait(kind)
    /\ IdleCount = 2
    /\ bpc = "waiting"
    /\ cpc = "joining"
    /\ connected

\* C11: a cancel_run whose Runs.cancel finds the run already terminal (the
\* run may have ended while the request was on its way) leaves the run's
\* status and its cancellation marker as they are and does not fail; with
\* wait=true its join can resolve at once, so the request is answered.
C11_CancelTerminalIsNoOp ==
    /\ []((CancelRunStep = "join" /\ runStatus \in Terminal)
             => ENABLED CancelRunJoin)
    /\ [](crun.seen \in Terminal => crun.pc # "raised" /\ runStatus = crun.seen)
    /\ [][(crun.at = 1 /\ crun'.at = 2 /\ runStatus \in Terminal)
             => /\ runStatus' = runStatus
                /\ cancelPending' = cancelPending
                /\ crun'.pc = "steps"]_vars

C11_Witness ==
    /\ crun.pc = "done"
    /\ crun.seen \in Terminal
    /\ crun.joined
    /\ cancelPending = "none"

\* C12: cancel_runs with a non-empty status and a thread_id or run ids, or
\* with a status that is none of pending, running, all in any letter case,
\* answers 422 and never calls Runs.cancel.
C12_StatusWithIdsRefused ==
    (/\ Truthy(cruns.status)
     /\ \/ Lower(cruns.status) \notin {"pending", "running", "all"}
        \/ cruns.thread_id \notin {Absent, ""}
        \/ cruns.run_ids \notin {None, << >>})
    => /\ ~cruns.called
       /\ cruns.pc \in {"validate", "done"}
       /\ cruns.pc = "done" => cruns.resp = 422

C12_Witness ==
    /\ cruns.pc = "done"
    /\ cruns.resp = 422
    /\ cruns.status = "ALL"
    /\ cruns.thread_id = Absent
    /\ cruns.run_ids = <<"uuid">>

\* C13: cancel_runs with no status and thread_id or run_ids absent is
\* answered with a 4xx validation error and Runs.cancel is not called.
C13_NoSelectorRefused ==
    (/\ cruns.status = Absent
     /\ cruns.thread_id = Absent \/ cruns.run_ids = None
     /\ cruns.pc = "done")
    => cruns.resp \in 400..499 /\ ~cruns.called

\* C14: cancel_run issues the cancellation before anything else; with
\* wait=true it answers only after its join of the run has resolved, the run
\* being terminal; with wait=false it answers without having joined.
C14_WaitJoinsBeforeAnswer ==
    /\ (crun.at > 1 \/ crun.pc = "done") => crun.issued # "none"
    /\ crun.joined => runStatus \in Terminal /\ crun.issued # "none"
    /\ (crun.pc = "done" /\ crun.wait_str \in {"TRUE", "1"}) => crun.joined
    /\ (crun.pc = "done" /\ crun.wait_str \notin {"TRUE", "1"}) => ~crun.joined

C14_Witness ==
    /\ crun.pc = "done"
    /\ crun.wait_str = "TRUE"
    /\ crun.seen = "running"
    /\ crun.joined
    /\ runStatus = "interrupted"

\* C15 (as stated): a cancel_run without wait is answered 204.
C15_NoWaitAnswers204 ==
    (crun.pc = "done" /\ crun.wait_str \notin {"TRUE", "1"}) => crun.resp = 204

\* C15: a cancel_run without wait is answered 202 (the cancellation is
\* accepted, its effect not awaited), one with wait 204.
C15_CancelStatusCode ==
    crun.pc = "done"
    => crun.resp = (IF crun.wait_str \in {"TRUE", "1"} THEN 204 ELSE 202)

C15_Witness ==
    /\ crun.pc = "done"
    /\ crun.wait_str = "false"
    /\ crun.resp = 202
    /\ crun.issued = "interrupt"

\* The slots of the batch that are past the barrier.
BatchPassed == { i \in 1..Len(batch.slot) :
                    batch.slot[i] \in {"passed", "done", "failedLate"} }

\* The slots of the batch that have sent their query and reached the barrier.
BatchArrived == { i \in 1..Len(batch.slot) :
                    batch.slot[i] \in {"waiting", "passed", "done", "failedLate"} }

BatchFailed == { i \in 1..Len(batch.slot) :
                    batch.slot[i] \in {"failedEarly", "failedLate"} }

\* C16: in a batch of N payloads no creation is past the barrier (none
\* fetches its result) unless all N creations have dispatched their query
\* and arrived at the barrier, whatever the interleaving.
C16_BarrierBeforeFetch ==
    BatchPassed # {} => BatchArrived = 1..batch.n

C16_Witness ==
    /\ Len(batch.slot) = MaxBatch
    /\ batch.slot[1] = "passed"
    /\ batch.slot[MaxBatch] = "done"

\* C17 (as stated): when one creation of a batch fails the batch still
\* returns a list with a result for every other slot.
C17_PartialFailureList ==
    (BatchFailed # {} /\ batch.pc \in {"returned", "raised"})
    => batch.pc = "returned" /\ Len(batch.runs) = batch.n

\* C17: a failure of one creation fails the whole batch: the handler raises
\* and returns no list; it returns a list only when every creation
\* succeeded.
C17_FailureFailsBatch ==
    /\ batch.pc = "returned"
         => /\ \A i \in 1..batch.n : batch.slot[i] = "done"
            /\ Len(batch.runs) = batch.n
    /\ batch.pc = "raised"
         => /\ batch.runs = << >>
            /\ batch.n = 0 \/ BatchFailed # {}

C17_Witness ==
    /\ batch.pc = "raised"
    /\ batch.n = MaxBatch
    /\ batch.slot[1] = "done"
    /\ batch.slot[2] = "failedLate"

\* C18: a batch that succeeds returns the runs in the order of the input
\* payloads: the i-th run was created from the i-th payload, in whatever
\* order the creations completed.
C18_InputOrder ==
    batch.pc = "returned"
    => /\ Len(batch.runs) = batch.n
       /\ \A i \in 1..batch.n : batch.runs[i].payload = i

C18_Witness ==
    /\ batch.pc = "returned"
    /\ batch.n = MaxBatch
    /\ batch.order[1] = MaxBatch
    /\ batch.runs[1].payload = 1

\* Both joins of the run, the wait-mode one and the streaming one, have run
\* to their end.
BothJoinsCompleted == cpc = "done" /\ sjoin.pc = "finished"

\* The value wait mode makes of one event's payload.
WaitValue(f) == IF f.mode = "error" THEN ErrorWrap(f.chunk) ELSE Raw(f.chunk)

\* The last values or error frame of q, q having one.
LastValuesOrError(q) ==
    q[CHOOSE i \in 1..Len(q) :
        /\ q[i].mode \in {"values", "error"}
        /\ \A j \in (i + 1)..Len(q) : q[j].mode \notin {"values", "error"}]

\* The last frame of q that wait mode makes its value of: a values frame, an
\* updates frame with an interrupt or an error frame.
LastTerminalFrame(q) ==
    q[CHOOSE i \in 1..Len(q) :
        /\ Retained(q[i]) \/ q[i].mode = "error"
        /\ \A j \in (i + 1)..Len(q) : ~(Retained(q[j]) \/ q[j].mode = "error")]

\* C19 (as stated): with a streaming join and a wait-mode join of the same
\* run both run to their end, the wait-mode value is the payload of the last
\* values or error event the streaming join relayed.
C19_SameAsLastValuesOrError ==
    (BothJoinsCompleted
        /\ \E i \in 1..Len(sjoin.out) : sjoin.out[i].mode \in {"values", "error"})
    => last_chunk = WaitValue(LastValuesOrError(sjoin.out))

\* C19: with both joins run to their end, the wait-mode value is the payload
\* of the last event the streaming join relayed that is a values event, an
\* updates event carrying an interrupt, or an error event (wrapped as
\* __error__).
C19_SameTerminalPayload ==
    (BothJoinsCompleted
        /\ \E i \in 1..Len(sjoin.out) :
              Retained(sjoin.out[i]) \/ sjoin.out[i].mode = "error")
    => last_chunk = WaitValue(LastTerminalFrame(sjoin.out))

C19_Witness ==
    /\ BothJoinsCompleted
    /\ Len(sjoin.out) = 2
    /\ sjoin.out[1].mode = "values"
    /\ sjoin.out[2].mode = "updates"
    /\ last_chunk = Raw(sjoin.out[2].chunk)

\* C20: the channel's log is the writer's events in order, the sequence
\* number of an event is its place in it, and a connected reader has received
\* exactly the events up to its cursor, each once and in sequence order,
\* all of them when its join ends, while another reader and the writer go
\* on at their own pace.
C20_OrderedDelivery ==
    /\ chanExists => log = published
    /\ Len(sjoin.out) = sjoin.cursor
    /\ sjoin.cursor <= Len(log)
    /\ \A i \in 1..Len(sjoin.out) :
          /\ sjoin.out[i].seq = i
          /\ sjoin.out[i].mode = log[i].mode
          /\ sjoin.out[i].chunk = log[i].chunk
    /\ sjoin.pc = "finished" => Len(sjoin.out) = Len(log)
    /\ cursor <= Len(log)

C20_Witness ==
    /\ sjoin.pc = "relaying"
    /\ Len(log) = MaxEvents
    /\ sjoin.cursor = 1
    /\ cursor = MaxEvents
    /\ log[1] # log[MaxEvents]

C25_TeardownOnlyWhenDone ==
    /\ []((hpc > 1 /\ ~chan.torn) => chanExists)
    /\ [][(chanExists /\ ~chanExists')
             => (listeners = 0 /\ runStatus \in Terminal)]_vars
    /\ [][(chanExists /\ listeners' < listeners /\ runStatus \notin Terminal)
             => (chanExists' /\ listeners' = listeners - 1 /\ log' = log)]_vars

C25_Witness ==
    /\ chan.torn
    /\ ~chanExists
    /\ listeners = 0
    /\ runStatus = "success"

\* C22: a join that has caught up suspends while the run is not terminal and
\* ends once the run is terminal and nothing is left: no join has completed
\* while the run is pending or running, a completed join has delivered the
\* whole log, and every join of a run that has become terminal eventually
\* completes.
C22_JoinEndsWithRun ==
    /\ [](sjoin.pc = "finished"
             => runStatus \in Terminal /\ Len(sjoin.out) = Len(log))
    /\ [](cpc \in {"fallback", "done"}
             => runStatus \in Terminal /\ cursor = Len(log))
    /\ (sjoin.pc = "relaying" /\ runStatus \in Terminal) ~> (sjoin.pc = "finished")
    /\ (cpc = "joining" /\ runStatus \in Terminal) ~> (cpc \in {"fallback", "done"})

C22_Witness ==
    /\ sjoin.pc = "finished"
    /\ cpc = "joining"
    /\ cursor = Len(log)
    /\ Len(log) = MaxEvents
    /\ runStatus = "timeout"

\* C23: a client that drops its stream after the event with sequence k and
\* rejoins with Last-Event-ID k receives from then on the events after k
\* only: at every moment its frames, those from before the drop followed by
\* those since the rejoin, are the first events of the log, each once and in
\* order, and all of them when the join ends.
C23_ResumeExactly ==
    /\ \A i \in 1..Len(sjoin.out) :
          /\ sjoin.out[i].seq = i
          /\ sjoin.out[i].mode = log[i].mode
          /\ sjoin.out[i].chunk = log[i].chunk
    /\ sjoin.rejoins > 0
         => /\ sjoin.last_event_id = (IF sjoin.before = 0 THEN << >>
                                      ELSE << sjoin.before >>)
            /\ \A i \in (sjoin.before + 1)..Len(sjoin.out) :
                  sjoin.out[i].seq > sjoin.before
    /\ sjoin.pc = "finished" => Len(sjoin.out) = Len(log)

C23_Witness ==
    /\ sjoin.pc = "finished"
    /\ sjoin.rejoins = 1
    /\ sjoin.before = 1
    /\ Len(sjoin.out) = MaxEvents

\* C24: the subscription a create-and-join handler obtains is held as long
\* as the join of the request is consuming, i.e. until the response has been
\* streamed, and it is released when the handler is left by an exception.
C24_SubscriptionHeldWhileJoining ==
    /\ (bpc = "relaying" \/ cpc = "joining") => subHeld
    /\ hstate = "raised" => ~subHeld

\* C26: a create-and-join request that validation rejects has changed
\* nothing: no run exists, none is marked for cancellation, and neither the
\* subscription nor the channel made for the request is left.
C26_RejectedLeavesNothing ==
    hstate = "raised"
    => /\ runStatus = "none"
       /\ cancelPending = "none"
       /\ ~subHeld
       /\ listeners = 0
       /\ ~chanExists

\* C27: delete_run of an absent run, in particular of one an earlier delete
\* removed, is answered NotFound (404) and changes neither the run nor the
\* thread: after the delete that succeeded every further delete fails, and
\* the state is the one a single delete leaves.
C27_DeleteRetrySafe ==
    /\ [](\A i, j \in 1..Len(drun.answers) :
             (i < j /\ drun.answers[i] = 204) => drun.answers[j] \in {404, 422})
    /\ [][(drun.pc = "delete" /\ drun'.pc = "done" /\ runDeleted)
             => /\ drun'.answers = Append(drun.answers, 404)
                /\ UNCHANGED << runStatus, runDeleted, threadExists,
                                cancelPending, chanExists, log >>]_vars

C27_Witness ==
    /\ Len(drun.answers) = MaxDeletes
    /\ drun.answers[1] = 204
    /\ drun.answers[2] = 404
    /\ drun.answers[MaxDeletes] = 404
    /\ runDeleted


\* The loop is between its snapshot and the end of its submissions.
MetaInFlight == meta.pc \in {"beacon", "langchain", "settle"}

\* The step that takes the snapshot.
MetaSnapshotStep == meta.pc = "top" /\ meta'.pc # "top"

\* The step that adds a snapshot back after every submission failed.
MetaAddBackStep == meta.pc = "settle" /\ meta'.pc = "sleep" /\ AllFailed(meta)

\* C28: RUN_COUNTER and NODE_COUNTER are non-negative integers, and a step
\* lowers one of them only when it is the loop's snapshot step, which leaves
\* it at zero; every other step, the add-back after failed submissions
\* included, leaves each counter where it was or higher.
C28_CountersOnlyGrow ==
    /\ [](meta.RUN_COUNTER \in Nat /\ meta.NODE_COUNTER \in Nat)
    /\ [][ /\ meta'.RUN_COUNTER < meta.RUN_COUNTER
              => MetaSnapshotStep /\ meta'.RUN_COUNTER = 0
           /\ meta'.NODE_COUNTER < meta.NODE_COUNTER
              => MetaSnapshotStep /\ meta'.NODE_COUNTER = 0
           /\ ~MetaSnapshotStep
              => /\ meta'.RUN_COUNTER - meta.RUN_COUNTER
                      = (meta'.added.runs - meta.added.runs)
                        + (IF MetaAddBackStep
                           THEN meta.runs ELSE 0)
                 /\ meta'.NODE_COUNTER - meta.NODE_COUNTER
                      = (meta'.added.nodes - meta.added.nodes)
                        + (IF MetaAddBackStep
                           THEN meta.nodes ELSE 0) ]_vars

\* A counter that was raised has been reset by the loop and raised again, and
\* a failed snapshot has been added back.
C28_Witness ==
    /\ meta.pc = "sleep"
    /\ meta.now = 2
    /\ AllFailed(meta)
    /\ meta.RUN_COUNTER = MaxUsage
    /\ meta.NODE_COUNTER = 1
    /\ meta.added.nodes = 1

\* C29: whenever the loop has finished an iteration and sleeps, all that was
\* ever added to a counter is in the counter or in a payload that reached at
\* least one endpoint.
C29_NoCountLost ==
    meta.pc = "sleep"
        => /\ meta.added.runs = meta.RUN_COUNTER + meta.sent.runs
           /\ meta.added.nodes = meta.NODE_COUNTER + meta.sent.nodes

\* C30: the snapshot step moves the whole of each counter into the snapshot
\* and leaves the counter at zero, and moves FROM_TIMESTAMP likewise, so
\* that at every moment each increment is in exactly one of: the counter,
\* the snapshot in flight, a settled snapshot.
C30_SnapshotAtomic ==
    /\ [][ MetaSnapshotStep
             => /\ meta'.runs = meta.RUN_COUNTER
                /\ meta'.nodes = meta.NODE_COUNTER
                /\ meta'.RUN_COUNTER = 0
                /\ meta'.NODE_COUNTER = 0
                /\ meta'.from_timestamp = meta.FROM_TIMESTAMP
                /\ meta'.FROM_TIMESTAMP = meta.now
                /\ meta'.added = meta.added ]_vars
    /\ [](/\ meta.added.runs
               = meta.RUN_COUNTER + (IF MetaInFlight THEN meta.runs ELSE 0)
                 + meta.sent.runs + meta.dropped.runs
          /\ meta.added.nodes
               = meta.NODE_COUNTER + (IF MetaInFlight THEN meta.nodes ELSE 0)
                 + meta.sent.nodes + meta.dropped.nodes)

\* An increment made before a snapshot is in it, and one made while that
\* snapshot is in flight is in the counter.
C30_Witness ==
    /\ MetaInFlight
    /\ meta.runs = 1
    /\ meta.RUN_COUNTER = 1
    /\ meta.nodes = 1
    /\ meta.NODE_COUNTER = 0
    /\ meta.now = 1


\* The step that ends an iteration's submissions.
MetaSettleStep == meta.pc = "settle" /\ meta'.pc = "sleep"

\* C31: at the end of an iteration in which every attempted submission
\* failed, each counter is its value at that moment plus the snapshot and
\* FROM_TIMESTAMP is the snapshot's from_timestamp again; at the end of any
\* other iteration the counters and FROM_TIMESTAMP are left as they are.
C31_AddBackOnlyWhenAllFailed ==
    [][ MetaSettleStep
          => IF meta.attempted # {} /\ meta.failed = meta.attempted
             THEN /\ meta'.RUN_COUNTER = meta.RUN_COUNTER + meta.runs
                  /\ meta'.NODE_COUNTER = meta.NODE_COUNTER + meta.nodes
                  /\ meta'.FROM_TIMESTAMP = meta.from_timestamp
             ELSE /\ meta'.RUN_COUNTER = meta.RUN_COUNTER
                  /\ meta'.NODE_COUNTER = meta.NODE_COUNTER
                  /\ meta'.FROM_TIMESTAMP = meta.FROM_TIMESTAMP ]_vars

\* Both submissions of the second iteration failed; its snapshot is back on
\* top of an increment made meanwhile, and the window starts where the
\* first, delivered one ended.
C31_Witness ==
    /\ meta.pc = "sleep"
    /\ meta.now = 2
    /\ meta.attempted = {"beacon", "langchain"}
    /\ meta.failed = meta.attempted
    /\ meta.RUN_COUNTER = MaxUsage
    /\ meta.sent.nodes = 1
    /\ meta.FROM_TIMESTAMP = 1

\* The window a delivered payload reports.
WindowOrdered(w) == w.from_timestamp <= w.to_timestamp

\* C32 (as stated): every delivered payload starts where the payload
\* delivered before it ended, the first at the process start.
C32_PayloadsTile ==
    \A i \in 1..Len(meta.delivered) :
        /\ WindowOrdered(meta.delivered[i])
        /\ meta.delivered[i].from_timestamp
             = IF i = 1 THEN MetaIdle.FROM_TIMESTAMP
               ELSE meta.delivered[i - 1].to_timestamp

\* C32: the windows of the iterations that delivered to at least one
\* endpoint tile time: a delivered payload reports the window of the payload
\* delivered before it (the same iteration's other endpoint) or starts where
\* that one ended, and the first starts at the process start.
C32_WindowsTile ==
    \A i \in 1..Len(meta.delivered) :
        /\ WindowOrdered(meta.delivered[i])
        /\ i = 1 => meta.delivered[i].from_timestamp = MetaIdle.FROM_TIMESTAMP
        /\ i > 1 => \/ meta.delivered[i] = meta.delivered[i - 1]
                    \/ meta.delivered[i].from_timestamp
                         = meta.delivered[i - 1].to_timestamp

\* A delivery, a failed iteration, a delivery.
C32_Witness ==
    /\ Len(meta.delivered) = 2
    /\ meta.delivered[1].to_timestamp = 1
    /\ meta.delivered[2].from_timestamp = 1
    /\ meta.delivered[2].to_timestamp = 3


\* C33 (refuted): whenever cancel_runs has called Runs.cancel, exactly one
\* selector was set: a status of pending / running / all with run_ids and
\* thread_id null, or no status with a valid thread_id and a non-empty list
\* of valid run ids.
C33_ExactlyOneSelector ==
    cruns.called
        => LET args == CancelRunsArgs(cruns)
           IN  \/ /\ args.status \in {"pending", "running", "all"}
                  /\ args.run_ids = None
                  /\ args.thread_id = Absent
               \/ /\ args.status \in {Absent, ""}
                  /\ args.thread_id = "uuid"
                  /\ args.run_ids # None
                  /\ Len(args.run_ids) >= 1
                  /\ \A i \in 1..Len(args.run_ids) : args.run_ids[i] = "uuid"

\* The action a handler should pass for the query parameter q.
ExpectedAction(q) == IF q = "rollback" THEN "rollback" ELSE "interrupt"

\* C34: the action cancel_run and cancel_runs pass to Runs.cancel, and with
\* it the cancellation marker, is interrupt or rollback: rollback when the
\* query parameter is exactly "rollback", interrupt when it is absent or
\* anything else.
C34_ActionCoerced ==
    /\ cancelPending \in {"none", "interrupt", "rollback"}
    /\ crun.issued # "none" => crun.issued = ExpectedAction(crun.action_str)
    /\ cruns.called => cruns.issued = ExpectedAction(cruns.action_str)

\* cancel_run was asked for an unknown action, cancel_runs for none.
C34_Witness ==
    /\ crun.action_str = "kill"
    /\ crun.issued = "interrupt"
    /\ cruns.called
    /\ cruns.action_str = Absent
    /\ cruns.issued = "interrupt"


\* Two (run, thread) pairs that denote the same run and the same thread.
SameRun(a, b) == a.run_id.id = b.run_id.id /\ a.thread_id.id = b.thread_id.id

\* C35: in each of the four create-and-join handlers the run that was
\* created and the run that is joined are the run subscribed to, thread
\* included, and two requests never hold a subscription for the same run id.
C35_SameRunThroughout ==
    /\ \A r \in 1..MaxRequests :
         /\ ids.req[r].run # NoRun => SameRun(ids.req[r].sub, ids.req[r].run)
         /\ ids.req[r].joined # NoRun
              => SameRun(ids.req[r].sub, ids.req[r].joined)
    /\ \A r1, r2 \in 1..MaxRequests :
         (r1 # r2 /\ ids.req[r1].sub # NoRun /\ ids.req[r2].sub # NoRun)
             => /\ ids.req[r1].sub.run_id.id # ids.req[r2].sub.run_id.id
                /\ ids.req[r1].sub # ids.req[r2].sub

\* A stream_run and a wait_run_stateless have both joined; the first on a
\* thread from its path.
C35_Witness ==
    /\ ids.req[1].kind = "stream_run"
    /\ ids.req[1].pc = "joined"
    /\ ids.req[2].kind = "wait_run_stateless"
    /\ ids.req[2].pc = "joined"
    /\ ids.req[2].joined.thread_id.form = "str"


\* C36 (refuted): once consume is over the body does not go on idling: with
\* the value set the next chunk is the value, and with consume ended by an
\* exception the body's next turn of the loop re-raises it.
C36_BodyEndsWithConsume ==
    [][ /\ (cpc = "done" /\ out' # out) => out' = Append(out, last_chunk)
        /\ (cpc \in {"failed", "failedTimeout"} /\ bpc = "top" /\ bpc' # bpc)
              => bpc' = "raised" /\ out' = out ]_vars


\* C37 (refuted): once the batch handler has returned or raised, no creation
\* is waiting at the barrier for a party that will never arrive, i.e. for a
\* creation that failed before it reached the barrier.
C37_NoneLeftAtBarrier ==
    batch.pc \in {"returned", "raised"}
        => ~(/\ \E i \in 1..Len(batch.slot) : batch.slot[i] = "waiting"
             /\ \E j \in 1..Len(batch.slot) : batch.slot[j] = "failedEarly")


\* C38: a tasks/get that returns a task reports pending as submitted,
\* running as working, success as completed, error / timeout / interrupted
\* as failed; a terminal run is never submitted or working, and only pending
\* and a status outside the six (or none) are reported as submitted.
C38_StatusToTaskState ==
    (a2a.method = "tasks/get" /\ a2a.outcome.kind = "result")
        => /\ a2a.lg_status = "pending" => a2a.outcome.state = "submitted"
           /\ a2a.lg_status = "running" => a2a.outcome.state = "working"
           /\ a2a.lg_status = "success" => a2a.outcome.state = "completed"
           /\ a2a.lg_status \in {"error", "timeout", "interrupted"}
                => a2a.outcome.state = "failed"
           /\ a2a.lg_status \in Terminal
                => a2a.outcome.state \notin {"submitted", "working"}
           /\ a2a.outcome.state = "submitted"
                => a2a.lg_status \notin {"running"} \cup Terminal

\* A tasks/get answered for a run that timed out.
C38_Witness ==
    /\ a2a.method = "tasks/get"
    /\ a2a.pc = "done"
    /\ a2a.outcome.kind = "result"
    /\ a2a.lg_status = "timeout"
    /\ a2a.outcome.state = "failed"

\* C39 (refuted): message/send joins at most once, only a run it created,
\* with the ids of that run, and answers a failed creation with an error
\* without joining; every request that is over has a response carrying its
\* id and either a result or an error.
C39_JoinAfterCreateAndEnvelope ==
    /\ Len(a2a.joins) <= 1
    /\ a2a.joins # << >>
         => /\ a2a.created = "ok"
            /\ a2a.joins[1] = [thread_id |-> a2a.run.thread_id,
                               run_id |-> a2a.run.run_id]
    /\ a2a.created \in {"mapped", "internal"}
         => a2a.joins = << >> /\ a2a.outcome.kind = "error"
    /\ a2a.pc = "done"
         => a2a.outcome.kind \in {"result", "error"} /\ a2a.outcome.id = a2a.id

\* C40 (refuted): the task a message/send returns carries the id of the run
\* and, as contextId, the thread the run is on, so that the tasks/get that
\* follows with these two finds the run.
C40_ReturnedTaskFound ==
    /\ (a2a.method = "message/send" /\ a2a.outcome.kind = "result")
         => /\ a2a.outcome.task = a2a.run.run_id
            /\ a2a.outcome.contextId = a2a.run.thread_id
    /\ a2a.follows => RunsGetFinds(a2a)

====
